---- MODULE Spec2Model ----
(***************************************************************************)
(* Model of the phase classification and risk engine of trading_system:    *)
(* core/risk_manager.py (RiskManager) and core/phase_analyzer.py           *)
(* (PhaseAnalyzer).                                                        *)
(*                                                                         *)
(* Units.  The code computes on floats; the model computes on exact        *)
(* decimals held as integers.  Prices and money amounts are in cents       *)
(* (1/100 yuan), total_capital is in yuan, confidence is in percent        *)
(* (100 = 1.0).  Entry, current, support and add prices are whole yuan, so *)
(* every product with 0.98, 0.95, 0.5 and 0.08 is an exact number of       *)
(* cents.  int(x) is truncation toward zero (Trunc).                       *)
(***************************************************************************)
EXTENDS Integers, Sequences, FiniteSets, TLC

VARIABLES
    total_capital,  \* RiskManager.total_capital, yuan
    position,       \* the caller's Position record: entry_price, stop_loss (cents)
    call,           \* the last call made on the RiskManager and its arguments
    ret,            \* what that call returned
    pc,             \* "idle": the caller may call; "returned": it holds a result
    adds,           \* the pyramid add-ons returned in succession: ratio and shares
    series,         \* the weekly bars handed to PhaseAnalyzer: close, volume
    analysis,       \* what analyze_phase returned for series, once called
    ma30,           \* the "ma30" column of the caller's bars: None while absent
    signals,        \* the list of TradeSignal the caller holds
    positions       \* RiskManager.positions: stock code -> Position

risk_vars == <<total_capital, position, call, ret, pc, adds>>

phase_vars == <<series, analysis>>

signal_vars == <<ma30, signals, positions>>

vars ==
    <<total_capital, position, call, ret, pc, adds, series, analysis, ma30,
      signals, positions>>

----------------------------------------------------------------------------
(* Configuration: config/settings.py and RiskManager.__init__              *)

max_loss_percent == 2

single_position_max == 20

----------------------------------------------------------------------------
(* Inputs                                                                  *)

\* total capital, yuan
Capitals == {100000, 1000000}

\* whole-yuan prices, in cents; zero and a negative price are out-of-range inputs
Prices == {-1000, 0, 1000, 10000, 12000, 100000}

\* stop prices handed to calculate_position_size, in cents
StopPrices == Prices \cup {500, 9200, 50000}

\* confidence, percent (the docstring's range 0.5 .. 1.5)
Confidences == {50, 100, 150}

\* the longest succession of pyramid add-ons that is recorded
MaxAdds == 3

----------------------------------------------------------------------------
(* Python values                                                           *)

None == <<>>

Some(v) == <<v>>

Abs(n) == IF n < 0 THEN -n ELSE n

\* int(n / d) for d # 0: truncation toward zero
Trunc(n, d) ==
    LET q == Abs(n) \div Abs(d)
    IN  IF (n < 0) = (d < 0) THEN q ELSE -q

Max2(a, b) == IF a >= b THEN a ELSE b

Raise == [kind |-> "raise"]

NoResult == [kind |-> "none"]

NotAnalyzed == [done |-> FALSE]

----------------------------------------------------------------------------
(* RiskManager.calculate_position_size                                     *)

\* variant: risk per share without the 8% replacement of line 69
risk_per_share_no_fallback(entry_price, stop_loss_price) ==
    entry_price - stop_loss_price

\* risk per share, cents: entry - stop, or 8% of entry when that is <= 0
risk_per_share(entry_price, stop_loss_price) ==
    IF entry_price - stop_loss_price <= 0
    THEN (entry_price * 8) \div 100
    ELSE entry_price - stop_loss_price

\* adjusted_risk, cents: capital * (max_loss_percent / 100) * confidence
adjusted_risk(capital, confidence) ==
    (capital * max_loss_percent * confidence) \div 100

\* max_position_value, cents: capital * (single_position_max / 100)
max_position_value(capital) == capital * single_position_max

\* variant: shares by risk without the rounding down to lots of 100
shares_by_risk_unrounded(capital, entry_price, stop_loss_price, confidence) ==
    LET s == Trunc(adjusted_risk(capital, confidence),
                   risk_per_share(entry_price, stop_loss_price))
    IN  IF s < 100 THEN 100 ELSE s

\* shares before the single-position check: lot rounding, then the 100 floor
shares_by_risk(capital, entry_price, stop_loss_price, confidence) ==
    LET s == Trunc(adjusted_risk(capital, confidence),
                   risk_per_share(entry_price, stop_loss_price) * 100) * 100
    IN  IF s < 100 THEN 100 ELSE s

\* variant: the single-position check left out
shares_uncapped(capital, entry_price, shares) == shares

\* shares after the single-position check
shares_capped(capital, entry_price, shares) ==
    IF shares * entry_price > max_position_value(capital)
    THEN Trunc(max_position_value(capital), entry_price * 100) * 100
    ELSE shares

calculate_position_size(capital, entry_price, stop_loss_price, confidence) ==
    LET rps == risk_per_share(entry_price, stop_loss_price)
    IN  IF rps = 0 \/ capital = 0
        THEN Raise   \* ZeroDivisionError, line 78 or line 93
        ELSE LET shares == shares_capped(capital, entry_price,
                               shares_by_risk(capital, entry_price,
                                              stop_loss_price, confidence))
             IN  [kind            |-> "sizing",
                  shares          |-> shares,
                  position_value  |-> shares * entry_price,
                  risk_amount     |-> shares * rps,
                  risk_percent    |-> [num |-> shares * rps, den |-> capital],
                  stop_loss_price |-> stop_loss_price]

----------------------------------------------------------------------------
(* Specification of the position sizing calls                              *)

NoCall == [op |-> "none", stock_code |-> "", entry_price |-> 0, stop_loss_price |-> 0,
           confidence |-> 0, current_price |-> 0, add_price |-> 0,
           new_support_level |-> None, support_level |-> None, atr |-> None,
           consolidation |-> None, index_phase |-> "UNKNOWN",
           signals |-> <<>>, market |-> <<>>, max_stocks |-> 0,
           generate_signals |-> FALSE]

NoPosition == [entry_price |-> 0, stop_loss |-> 0]

\* self.positions = {}
NoPositions == [c \in {} |-> NoPosition]

Init ==
    /\ total_capital \in Capitals
    /\ position = NoPosition
    /\ call = NoCall
    /\ ret = NoResult
    /\ pc = "idle"
    /\ adds = <<>>
    /\ series = <<>>
    /\ analysis = NotAnalyzed
    /\ ma30 = None
    /\ signals = <<>>
    /\ positions = NoPositions

CalculatePositionSize ==
    \E e \in Prices, s \in StopPrices, c \in Confidences :
        /\ call' = [NoCall EXCEPT !.op = "calculate_position_size",
                                  !.entry_price = e,
                                  !.stop_loss_price = s,
                                  !.confidence = c]
        /\ ret' = calculate_position_size(total_capital, e, s, c)
        /\ UNCHANGED <<total_capital, position, pc, adds>>
        /\ UNCHANGED phase_vars
        /\ UNCHANGED signal_vars

Next == CalculatePositionSize

Spec == Init /\ [][Next]_vars

----------------------------------------------------------------------------
(* RiskManager.update_stop_loss                                            *)

\* (current_price - entry_price) / entry_price > 0.1, for entry_price # 0
profit_over_10_percent(entry_price, current_price) ==
    IF entry_price > 0
    THEN 10 * (current_price - entry_price) > entry_price
    ELSE 10 * (current_price - entry_price) < entry_price

\* `new_support_level and new_support_level > position.stop_loss`:
\* None and 0 are both false
support_above_stop(pos, new_support_level) ==
    /\ new_support_level # None
    /\ new_support_level[1] # 0
    /\ new_support_level[1] > pos.stop_loss

\* variant: the candidate stops returned without max(..., position.stop_loss)
update_stop_loss_unclamped(pos, current_price, new_support_level) ==
    IF support_above_stop(pos, new_support_level)
    THEN [kind |-> "stop", stop |-> (new_support_level[1] * 98) \div 100]
    ELSE IF pos.entry_price = 0
    THEN Raise
    ELSE IF profit_over_10_percent(pos.entry_price, current_price)
    THEN [kind |-> "stop",
          stop |-> pos.entry_price + (current_price - pos.entry_price) \div 2]
    ELSE [kind |-> "stop", stop |-> pos.stop_loss]

\* variant: the higher of the support candidate and the gain candidate
update_stop_loss_best_candidate(pos, current_price, new_support_level) ==
    LET gain_stop ==
            IF /\ pos.entry_price # 0
               /\ profit_over_10_percent(pos.entry_price, current_price)
            THEN pos.entry_price + (current_price - pos.entry_price) \div 2
            ELSE pos.stop_loss
    IN  IF support_above_stop(pos, new_support_level)
        THEN [kind |-> "stop",
              stop |-> Max2(Max2((new_support_level[1] * 98) \div 100,
                                 gain_stop),
                            pos.stop_loss)]
        ELSE IF pos.entry_price = 0
        THEN Raise
        ELSE [kind |-> "stop", stop |-> Max2(gain_stop, pos.stop_loss)]

update_stop_loss(pos, current_price, new_support_level) ==
    IF support_above_stop(pos, new_support_level)
    THEN [kind |-> "stop",
          stop |-> Max2((new_support_level[1] * 98) \div 100, pos.stop_loss)]
    ELSE IF pos.entry_price = 0
    THEN Raise   \* ZeroDivisionError, line 147
    ELSE IF profit_over_10_percent(pos.entry_price, current_price)
    THEN [kind |-> "stop",
          stop |-> Max2(pos.entry_price
                          + (current_price - pos.entry_price) \div 2,
                        pos.stop_loss)]
    ELSE [kind |-> "stop", stop |-> pos.stop_loss]

----------------------------------------------------------------------------
(* RiskManager.calculate_pyramid_add_position                              *)

\* getattr(position, 'add_count', 0): Position (models/schemas.py) declares no
\* add_count field, so a Position record carries none
add_count(pos) ==
    IF "add_count" \in DOMAIN pos THEN pos.add_count ELSE 0

Pow2(k) == IF k = 0 THEN 1 ELSE IF k = 1 THEN 2 ELSE IF k = 2 THEN 4 ELSE 8

\* the denominator d of add_ratio = 1.0 / (2 ** add_count) = 1 / d
add_ratio_den(pos) == Pow2(add_count(pos))

\* variant: the add-on stop 5% under the add price, whatever the old stop
pyramid_stop_at_add_price(pos, add_price) ==
    (add_price * 95) \div 100

\* new_stop_loss = max(add_price * 0.95, position.stop_loss)
pyramid_stop(pos, add_price) ==
    Max2((add_price * 95) \div 100, pos.stop_loss)

calculate_pyramid_add_position(capital, pos, current_price, add_price) ==
    IF current_price <= pos.entry_price
    THEN NoResult
    ELSE LET original_sizing ==
                 calculate_position_size(capital, pos.entry_price,
                                         pos.stop_loss, 100)
         IN  IF original_sizing.kind = "raise"
             THEN Raise
             ELSE LET add_shares ==
                          Trunc(original_sizing.shares,
                                add_ratio_den(pos) * 100) * 100
                      new_stop_loss == pyramid_stop(pos, add_price)
                  IN  IF add_shares < 100
                      THEN NoResult
                      ELSE [kind            |-> "sizing",
                            shares          |-> add_shares,
                            position_value  |-> add_shares * add_price,
                            risk_amount     |->
                                add_shares * (add_price - new_stop_loss),
                            risk_percent    |->
                                [num |-> add_shares * (add_price - new_stop_loss),
                                 den |-> capital],
                            stop_loss_price |-> new_stop_loss]

----------------------------------------------------------------------------
(* Specification of one position under trailing stops and pyramid add-ons: *)
(* the caller calls update_stop_loss or calculate_pyramid_add_position and *)
(* writes the returned stop back into position.stop_loss before its next   *)
(* call.                                                                   *)

\* prices of the position's stock, whole yuan in cents
PositionPrices == {0, 1000, 1100, 1200, 2000}

\* prices at which the stock trades when an add-on is considered; 1200.00 is
\* above the entry of a position bought at 1000.00 a share
PyramidPrices == PositionPrices \cup {120000}

\* prices at which an add-on is bought
AddPrices == {1100, 1200, 2000}

\* stops a position starts with, cents
InitialStops == {500, 920, 1000, 1500}

InitStop ==
    /\ total_capital \in Capitals
    /\ position \in [entry_price : {0, 1000, 100000},
                      stop_loss : InitialStops]
    /\ call = NoCall
    /\ ret = NoResult
    /\ pc = "idle"
    /\ adds = <<>>
    /\ series = <<>>
    /\ analysis = NotAnalyzed
    /\ ma30 = None
    /\ signals = <<>>
    /\ positions = NoPositions

UpdateStopLoss ==
    \E cur \in PositionPrices,
       sup \in {None} \cup {Some(p) : p \in PositionPrices} :
        /\ pc = "idle"
        /\ call' = [NoCall EXCEPT !.op = "update_stop_loss",
                                  !.current_price = cur,
                                  !.new_support_level = sup]
        /\ ret' = update_stop_loss(position, cur, sup)
        /\ pc' = "returned"
        /\ adds' = <<>>
        /\ UNCHANGED <<total_capital, position>>
        /\ UNCHANGED phase_vars
        /\ UNCHANGED signal_vars

CalculatePyramidAddPosition ==
    \E cur \in PyramidPrices, add \in AddPrices :
        /\ pc = "idle"
        /\ Len(adds) < MaxAdds
        /\ call' = [NoCall EXCEPT !.op = "calculate_pyramid_add_position",
                                  !.current_price = cur,
                                  !.add_price = add]
        /\ ret' = calculate_pyramid_add_position(total_capital, position,
                                                 cur, add)
        /\ pc' = "returned"
        /\ adds' = IF ret'.kind = "sizing"
                   THEN Append(adds, [ratio_den |-> add_ratio_den(position),
                                      shares    |-> ret'.shares])
                   ELSE adds
        /\ UNCHANGED <<total_capital, position>>
        /\ UNCHANGED phase_vars
        /\ UNCHANGED signal_vars

\* the stop the caller holds after a call: the returned one, or the old one
\* when the call returned none or raised
returned_stop(pos, r) ==
    IF r.kind = "stop" THEN r.stop
    ELSE IF r.kind = "sizing" THEN r.stop_loss_price
    ELSE pos.stop_loss

WriteBack ==
    /\ pc = "returned"
    /\ position' = [position EXCEPT !.stop_loss = returned_stop(position, ret)]
    /\ pc' = "idle"
    /\ UNCHANGED <<total_capital, call, ret, adds>>
    /\ UNCHANGED phase_vars
    /\ UNCHANGED signal_vars

NextStop ==
    \/ UpdateStopLoss
    \/ CalculatePyramidAddPosition
    \/ WriteBack

SpecStop == InitStop /\ [][NextStop]_vars

----------------------------------------------------------------------------
(* Claims about the stop of one position (specification SpecStop)          *)

\* C1: across update_stop_loss and calculate_pyramid_add_position calls whose
\* returned stop the caller writes back, position.stop_loss never decreases.
C1_MonotonicStop ==
    [][position'.stop_loss >= position.stop_loss]_vars

\* C1 witness: update_stop_loss has raised the stop to 98% of a support of
\* 11.00, the caller has written it back, and a pyramid add-on now returns a
\* stop above it.
C1_Witness ==
    /\ pc = "returned"
    /\ position.stop_loss = (1100 * 98) \div 100
    /\ call.op = "calculate_pyramid_add_position"
    /\ ret.kind = "sizing"
    /\ ret.stop_loss_price > position.stop_loss

\* C9, as stated: the k-th pyramid add-on in succession uses the add ratio
\* 1 / 2^(k-1) (1.0, 0.5, 0.25), and the returned share counts are
\* non-increasing.
C9_PyramidDecayAsStated ==
    \A k \in 1..Len(adds) :
        /\ adds[k].ratio_den = Pow2(k - 1)
        /\ k > 1 => adds[k].shares <= adds[k - 1].shares

\* update_stop_loss has returned and the caller has not yet written the stop
\* back: position is the position the call was made with
Updated == call.op = "update_stop_loss" /\ pc = "returned"

\* a new support above the current stop is given
SupportGiven ==
    /\ call.new_support_level # None
    /\ call.new_support_level[1] > position.stop_loss

\* (current_price - entry) / entry > 0.10, for a positive entry
GainOverTenPercent ==
    10 * (call.current_price - position.entry_price) > position.entry_price

\* C24: update_stop_loss returns max(new_support x 0.98, position.stop_loss)
\* when a new support above the current stop is given, whatever the gain;
\* otherwise, for a position with a positive entry price, it returns
\* max(entry + 0.5 x (current_price - entry), position.stop_loss) when the
\* gain exceeds 10% and position.stop_loss unchanged when it does not.
C24_TrailingStopValue ==
    Updated =>
        IF SupportGiven
        THEN /\ ret.kind = "stop"
             /\ 100 * ret.stop = Max2(98 * call.new_support_level[1],
                                      100 * position.stop_loss)
        ELSE position.entry_price > 0 =>
                /\ ret.kind = "stop"
                /\ 2 * ret.stop =
                      IF GainOverTenPercent
                      THEN Max2(position.entry_price + call.current_price,
                                2 * position.stop_loss)
                      ELSE 2 * position.stop_loss

\* a position entered at 10.00 with its stop at 9.20 trades at 20.00, a gain
\* whose candidate is 15.00, and a support of 10.00 is given: the stop
\* returned is 9.80
C24_Witness ==
    /\ Updated
    /\ position = [entry_price |-> 1000, stop_loss |-> 920]
    /\ call.current_price = 2000
    /\ call.new_support_level = Some(1000)
    /\ SupportGiven
    /\ GainOverTenPercent
    /\ ret = [kind |-> "stop", stop |-> 980]

----------------------------------------------------------------------------
(* Claims about calculate_position_size (specification Spec)               *)

Sized == call.op = "calculate_position_size" /\ ret.kind = "sizing"

\* floor(n / d) for d # 0
Floor(n, d) == IF d > 0 THEN n \div d ELSE (-n) \div (-d)

\* C3, as stated: the returned shares are a non-negative multiple of 100, and
\* at least 100 whenever entry - stop > 0 and capital > 0.
C3_LotSizeAsStated ==
    Sized =>
        /\ ret.shares >= 0
        /\ ret.shares % 100 = 0
        /\ (call.entry_price - call.stop_loss_price > 0 /\ total_capital > 0
              => ret.shares >= 100)

\* C3, amended: the returned shares are a non-negative multiple of 100, and at
\* least 100 whenever entry - stop > 0, capital > 0 and one lot of 100 shares
\* at the entry price does not exceed the single-position cap.
C3_LotSize ==
    Sized =>
        /\ ret.shares >= 0
        /\ ret.shares % 100 = 0
        /\ ((/\ call.entry_price - call.stop_loss_price > 0
             /\ total_capital > 0
             /\ 100 * call.entry_price <= max_position_value(total_capital))
              => ret.shares >= 100)

\* C3 witness: the single-position cap has recomputed the share count of a
\* call with entry - stop > 0, and at least one lot is left.
C3_Witness ==
    /\ Sized
    /\ call.entry_price - call.stop_loss_price > 0
    /\ shares_by_risk(total_capital, call.entry_price, call.stop_loss_price,
                      call.confidence) > ret.shares
    /\ ret.shares >= 100

\* C4: for a positive entry price the returned position_value (shares x entry)
\* is at most capital x single_position_max / 100.
C4_PositionCap ==
    Sized /\ call.entry_price > 0 =>
        /\ ret.position_value = ret.shares * call.entry_price
        /\ ret.position_value <= max_position_value(total_capital)

\* C4 witness: lot rounding gave fewer than 100 shares, the floor raised them
\* to 100, and 100 shares exceeded the cap, which then recomputed them.
C4_Witness ==
    /\ Sized
    /\ call.entry_price > 0
    /\ Trunc(adjusted_risk(total_capital, call.confidence),
             risk_per_share(call.entry_price, call.stop_loss_price) * 100) = 0
    /\ 100 * call.entry_price > max_position_value(total_capital)
    /\ ret.position_value <= max_position_value(total_capital)

\* C5, as stated: with entry - stop > 0 the returned risk_amount is at most
\* capital x max_loss_percent / 100 x confidence, i.e. risk_percent is at most
\* max_loss_percent x confidence.
C5_RiskCapAsStated ==
    Sized /\ call.entry_price - call.stop_loss_price > 0 =>
        /\ ret.risk_amount <= adjusted_risk(total_capital, call.confidence)
        /\ ret.risk_percent.num * 100
             <= max_loss_percent * call.confidence * ret.risk_percent.den

\* The reference computation of C10, written with floor.
RefRiskPerShare(entry, stop) ==
    IF entry - stop <= 0 THEN (8 * entry) \div 100 ELSE entry - stop

RefSharesBeforeCap(capital, entry, stop, confidence) ==
    LET lots == Floor(capital * max_loss_percent * confidence,
                      RefRiskPerShare(entry, stop) * 10000)
    IN  IF lots * 100 < 100 THEN 100 ELSE lots * 100

RefShares(capital, entry, stop, confidence) ==
    LET before == RefSharesBeforeCap(capital, entry, stop, confidence)
        cap    == capital * single_position_max
    IN  IF before * entry > cap
        THEN Floor(cap, entry * 100) * 100
        ELSE before

\* C10: calculate_position_size returns the shares of the reference
\* computation (it ends without a result only where the reference divides by
\* a risk per share of 0); entry 100, stop 92, capital 1,000,000 gives 2500
\* shares before the cap and 2000 after.
C10_ReferenceSizing ==
    call.op = "calculate_position_size" =>
        /\ (ret.kind = "raise") =
              (RefRiskPerShare(call.entry_price, call.stop_loss_price) = 0)
        /\ ret.kind = "sizing" =>
              /\ ret.shares = RefShares(total_capital, call.entry_price,
                                        call.stop_loss_price, call.confidence)
              /\ ret.risk_amount = ret.shares *
                    RefRiskPerShare(call.entry_price, call.stop_loss_price)
        /\ (/\ total_capital = 1000000
            /\ call.entry_price = 10000
            /\ call.stop_loss_price = 9200
            /\ call.confidence = 100)
              => /\ shares_by_risk(total_capital, call.entry_price,
                                   call.stop_loss_price, call.confidence) = 2500
                 /\ ret.kind = "sizing"
                 /\ ret.shares = 2000

\* C10 witness: the scenario entry 100, stop 92, capital 1,000,000 has been
\* sized at 2000 shares.
C10_Witness ==
    /\ Sized
    /\ total_capital = 1000000
    /\ call.entry_price = 10000
    /\ call.stop_loss_price = 9200
    /\ call.confidence = 100
    /\ ret.shares = 2000

----------------------------------------------------------------------------
(* PhaseAnalyzer                                                           *)
(*                                                                         *)
(* A bar is [close, volume]; a series is a sequence of bars, oldest first. *)
(* Closes are integers in a unit the series fixes; every test of the       *)
(* analyzer compares ratios of closes, so the unit does not matter.  A     *)
(* float that the code computes by division is held as a fraction          *)
(* [num, den] and compared by cross-multiplication; den = 0 stands for the *)
(* float's inf (num # 0) or nan (num = 0).                                 *)

ma_period == 30

ma_min_periods == 20

slope_periods == 5

volume_ma_window == 10

volume_threshold == 2

\* slope_threshold = 0.02
slope_threshold == [num |-> 1, den |-> 50]

RECURSIVE GCD(_, _)
GCD(a, b) == IF b = 0 THEN a ELSE GCD(b, a % b)

LCM(a, b) == (a \div GCD(a, b)) * b

\* r > t and r < t for fractions r and t, t.den > 0; a nan compares false
RatGT(r, t) ==
    LET g == GCD(Abs(r.den), t.den)
    IN  IF r.den > 0 THEN r.num * (t.den \div g) > t.num * (r.den \div g)
        ELSE IF r.den < 0 THEN r.num * (t.den \div g) < t.num * (r.den \div g)
        ELSE r.num > 0

RatLT(r, t) ==
    LET g == GCD(Abs(r.den), t.den)
    IN  IF r.den > 0 THEN r.num * (t.den \div g) < t.num * (r.den \div g)
        ELSE IF r.den < 0 THEN r.num * (t.den \div g) > t.num * (r.den \div g)
        ELSE r.num < 0

RatNeg(t) == [num |-> -t.num, den |-> t.den]

RECURSIVE SumClose(_, _, _)
SumClose(s, lo, hi) ==
    IF lo > hi THEN 0 ELSE s[hi].close + SumClose(s, lo, hi - 1)

RECURSIVE SumVolume(_, _, _)
SumVolume(s, lo, hi) ==
    IF lo > hi THEN 0 ELSE s[hi].volume + SumVolume(s, lo, hi - 1)

SetMin(S) == CHOOSE x \in S : \A y \in S : x <= y

SetMax(S) == CHOOSE x \in S : \A y \in S : x >= y

\* the closes of the last n bars: df["close"].tail(n)
TailCloses(s, n) == {s[i].close : i \in Max2(1, Len(s) - n + 1)..Len(s)}

\* rolling(window=30, min_periods=20).mean() at bar i: the mean of the closes
\* of the window ending at i, defined once the window holds 20 closes
\* the variant that waits for a full window of 30 closes
ma30_at_full_window(s, i) ==
    LET lo == Max2(1, i - ma_period + 1)
    IN  IF i - lo + 1 >= ma_period
        THEN [def |-> TRUE, num |-> SumClose(s, lo, i), den |-> i - lo + 1]
        ELSE [def |-> FALSE, num |-> 0, den |-> 1]

ma30_at(s, i) ==
    LET lo == Max2(1, i - ma_period + 1)
    IN  IF i - lo + 1 >= ma_min_periods
        THEN [def |-> TRUE, num |-> SumClose(s, lo, i), den |-> i - lo + 1]
        ELSE [def |-> FALSE, num |-> 0, den |-> 1]

calculate_ma30(s) == [i \in 1..Len(s) |-> ma30_at(s, i)]

\* 6 / (k^2 - 1) in lowest terms: the least-squares slope over x = 0..k-1,
\* divided by the mean, is (6 / (k^2 - 1)) * A / B with
\* A = sum (2x - (k-1)) y and B = sum y
SlopeCoef(k) ==
    LET g == GCD(6, k * k - 1)
    IN  [num |-> 6 \div g, den |-> (k * k - 1) \div g]

RECURSIVE LcmDen(_, _)
LcmDen(y, j) == IF j = 0 THEN 1 ELSE LCM(LcmDen(y, j - 1), y[j].den)

RECURSIVE SlopeA(_, _, _)
SlopeA(y, l, j) ==
    IF j = 0 THEN 0
    ELSE SlopeA(y, l, j - 1)
           + (2 * (j - 1) - (Len(y) - 1)) * (y[j].num * (l \div y[j].den))

RECURSIVE SlopeB(_, _, _)
SlopeB(y, l, j) ==
    IF j = 0 THEN 0
    ELSE SlopeB(y, l, j - 1) + y[j].num * (l \div y[j].den)

IsDefined(m) == m.def

\* the variant that fits the values newest first
calculate_ma_slope_newest_first(ma) ==
    IF Len(ma) < slope_periods
    THEN [num |-> 0, den |-> 1]
    ELSE LET recent_ma ==
                 SelectSeq(SubSeq(ma, Len(ma) - slope_periods + 1, Len(ma)),
                           IsDefined)
             k == Len(recent_ma)
         IN  IF k < 2
             THEN [num |-> 0, den |-> 1]
             ELSE LET l == LcmDen(recent_ma, k)
                  IN  [num |-> -SlopeCoef(k).num * SlopeA(recent_ma, l, k),
                       den |-> SlopeCoef(k).den * SlopeB(recent_ma, l, k)]

\* np.polyfit(x, y, 1)[0] / mean(y) over the defined values among the last 5
calculate_ma_slope(ma) ==
    IF Len(ma) < slope_periods
    THEN [num |-> 0, den |-> 1]
    ELSE LET recent_ma ==
                 SelectSeq(SubSeq(ma, Len(ma) - slope_periods + 1, Len(ma)),
                           IsDefined)
             k == Len(recent_ma)
         IN  IF k < 2
             THEN [num |-> 0, den |-> 1]
             ELSE LET l == LcmDen(recent_ma, k)
                  IN  [num |-> SlopeCoef(k).num * SlopeA(recent_ma, l, k),
                       den |-> SlopeCoef(k).den * SlopeB(recent_ma, l, k)]

\* variant: the two threshold tests exchanged
get_ma_direction_swapped(slope) ==
    IF RatGT(slope, slope_threshold) THEN "down"
    ELSE IF RatLT(slope, RatNeg(slope_threshold)) THEN "up"
    ELSE "flat"

get_ma_direction(slope) ==
    IF RatGT(slope, slope_threshold) THEN "up"
    ELSE IF RatLT(slope, RatNeg(slope_threshold)) THEN "down"
    ELSE "flat"

\* current_price / current_ma if current_ma > 0 else 1.0
price_to_ma_ratio(current_price, current_ma) ==
    IF current_ma.def /\ current_ma.num > 0
    THEN [num |-> current_price * current_ma.den, den |-> current_ma.num]
    ELSE [num |-> 1, den |-> 1]

\* volume_ratio > volume_threshold, with volume_ratio =
\* current_volume / avg_volume if avg_volume > 0 else 1.0 and avg_volume the
\* mean of the last 10 volumes
volume_confirmation(s) ==
    LET n   == Len(s)
        sum == SumVolume(s, n - volume_ma_window + 1, n)
    IN  /\ n >= volume_ma_window
        /\ sum > 0
        /\ s[n].volume * volume_ma_window > volume_threshold * sum

----------------------------------------------------------------------------
(* Exact arithmetic on naturals beyond 32 bits: a number is the sequence   *)
(* of its base-10000 limbs, lowest first.                                  *)

Base == 10000

RECURSIVE BigCarry(_, _)
BigCarry(a, c) ==
    IF a = <<>>
    THEN IF c = 0 THEN <<>> ELSE <<c % Base>> \o BigCarry(<<>>, c \div Base)
    ELSE <<(a[1] + c) % Base>> \o BigCarry(Tail(a), (a[1] + c) \div Base)

BigOf(n) == BigCarry(<<n>>, 0)

Limb(a, k) == IF k >= 1 /\ k <= Len(a) THEN a[k] ELSE 0

BigAdd(a, b) ==
    BigCarry([k \in 1..Max2(Len(a), Len(b)) |-> Limb(a, k) + Limb(b, k)], 0)

\* a * c for an integer 0 <= c <= 200000
BigScale(a, c) == BigCarry([k \in 1..Len(a) |-> a[k] * c], 0)

RECURSIVE ConvSum(_, _, _, _)
ConvSum(a, b, k, i) ==
    IF i = 0 THEN 0
    ELSE a[i] * Limb(b, k + 1 - i) + ConvSum(a, b, k, i - 1)

BigMul(a, b) ==
    BigCarry([k \in 1..(Len(a) + Len(b)) |-> ConvSum(a, b, k, Len(a))], 0)

RECURSIVE BigLTFrom(_, _, _)
BigLTFrom(a, b, k) ==
    IF k = 0 THEN FALSE
    ELSE IF Limb(a, k) # Limb(b, k) THEN Limb(a, k) < Limb(b, k)
    ELSE BigLTFrom(a, b, k - 1)

BigLT(a, b) == BigLTFrom(a, b, Max2(Len(a), Len(b)))

----------------------------------------------------------------------------
(* PhaseAnalyzer.find_consolidation_ranges, detect_breakout and            *)
(* detect_breakdown.  Indices are the code's: bar k of the code is s[k+1]. *)

min_weeks == 8

\* price_range < consolidation_threshold (0.15) for the window starting at
\* bar i, price_range = (max - min) / mean of its closes
price_range_below(s, i) ==
    LET w      == {s[j].close : j \in (i + 1)..(i + min_weeks)}
        sum    == SumClose(s, i + 1, i + min_weeks)
        spread == SetMax(w) - SetMin(w)
    IN  IF sum > 0 THEN spread * min_weeks * 100 < 15 * sum
        ELSE sum < 0

RECURSIVE SumSeq(_, _)
SumSeq(y, j) == IF j = 0 THEN 0 ELSE y[j] + SumSeq(y, j - 1)

RECURSIVE SumSquares(_, _)
SumSquares(y, j) == IF j = 0 THEN 0 ELSE y[j] * y[j] + SumSquares(y, j - 1)

\* std(y) / mean(y) < slope_threshold (0.02) for integers y, that is
\* 2500 * V < S^2 with S = sum y > 0 and V = n * sum y^2 - S^2, computed on
\* the deviations e from the least y (V is the same for y and e)
std_over_mean_below(y) ==
    LET n    == Len(y)
        low  == SetMin({y[j] : j \in 1..n})
        high == SetMax({y[j] : j \in 1..n})
        e    == [j \in 1..n |-> y[j] - low]
        S    == SumSeq(y, n)
        V    == n * SumSquares(e, n) - SumSeq(e, n) * SumSeq(e, n)
        q    == S \div 50
        r    == S % 50
    IN  IF S < 0 THEN TRUE
        ELSE IF S = 0 THEN FALSE
        ELSE IF 100 * (high - low) >= S THEN FALSE   \* V >= 4 (high - low)^2
        ELSE IF V - q * q <= 0 THEN V - q * q < 0 \/ r > 0
        ELSE IF V - q * q > (100 * q * r + r * r) \div 2500 THEN FALSE
        ELSE 2500 * (V - q * q) < 100 * q * r + r * r

RECURSIVE ScaleByOthers(_, _, _, _)
\* y[i].num times the denominators of the other values, as limbs
ScaleByOthers(y, i, j, acc) ==
    IF j = 0 THEN acc
    ELSE ScaleByOthers(y, i, j - 1,
                       IF j = i THEN acc ELSE BigScale(acc, y[j].den))

RECURSIVE BigSum(_, _)
BigSum(Y, j) == IF j = 0 THEN <<>> ELSE BigAdd(Y[j], BigSum(Y, j - 1))

\* the same test for non-negative fractions y of different denominators:
\* n * 2500 * sum Y^2 < 2501 * (sum Y)^2 for Y = y times all denominators
std_over_mean_below_fractions(y) ==
    LET n  == Len(y)
        Y  == [i \in 1..n |-> ScaleByOthers(y, i, n, BigOf(y[i].num))]
        S  == BigSum(Y, n)
        Q  == BigSum([i \in 1..n |-> BigMul(Y[i], Y[i])], n)
    IN  BigLT(BigScale(Q, n * 2500), BigScale(BigMul(S, S), 2501))

\* np.std(window_ma) / np.mean(window_ma) < slope_threshold for the window
\* starting at bar i; a window with an undefined average compares false
ma_flat(ma, i) ==
    LET w == SubSeq(ma, i + 1, i + min_weeks)
    IN  /\ \A j \in 1..min_weeks : w[j].def
        /\ IF \A j \in 1..min_weeks : w[j].den = w[1].den
           THEN std_over_mean_below([j \in 1..min_weeks |-> w[j].num])
           ELSE std_over_mean_below_fractions(w)

\* ConsolidationRange of the window starting at bar i
ConsolidationRange(s, i) ==
    LET w == {s[j].close : j \in (i + 1)..(i + min_weeks)}
    IN  [start_idx      |-> i,
         end_idx        |-> i + min_weeks - 1,
         high           |-> SetMax(w),
         low            |-> SetMin(w),
         avg_volume     |-> [num |-> SumVolume(s, i + 1, i + min_weeks),
                             den |-> min_weeks],
         duration_weeks |-> min_weeks]

\* the variant that keeps only the latest qualifying window
find_consolidation_ranges_latest(s, ma) ==
    IF Len(s) < min_weeks THEN <<>>
    ELSE LET Qualifies(i) == price_range_below(s, i) /\ ma_flat(ma, i)
             starts == SelectSeq([k \in 1..(Len(s) - min_weeks + 1) |-> k - 1],
                                 Qualifies)
         IN  IF starts = <<>> THEN <<>>
             ELSE <<ConsolidationRange(s, starts[Len(starts)])>>

find_consolidation_ranges(s, ma) ==
    IF Len(s) < min_weeks THEN <<>>
    ELSE LET Qualifies(i) == price_range_below(s, i) /\ ma_flat(ma, i)
             starts == SelectSeq([k \in 1..(Len(s) - min_weeks + 1) |-> k - 1],
                                 Qualifies)
         IN  [k \in 1..Len(starts) |-> ConsolidationRange(s, starts[k])]

\* current_volume > consolidation.avg_volume * volume_threshold
volume_confirmed(volume, consolidation) ==
    volume * consolidation.avg_volume.den
        > volume_threshold * consolidation.avg_volume.num

\* the variant that tests the bar that follows the range, df.iloc[end_idx+1]
detect_breakout_after_range(s, consolidation) ==
    IF Len(s) <= consolidation.end_idx + 1 THEN <<FALSE, FALSE>>
    ELSE LET bar == s[consolidation.end_idx + 2]
         IN  <<100 * bar.close > 103 * consolidation.high,
               volume_confirmed(bar.volume, consolidation)>>

\* (upward_breakout, volume_confirmed); breakout_data = df.iloc[end_idx:]
\* starts at bar end_idx, the bar that .iloc[0] reads
detect_breakout(s, consolidation) ==
    IF Len(s) <= consolidation.end_idx THEN <<FALSE, FALSE>>
    ELSE IF Len(s) - consolidation.end_idx < 2 THEN <<FALSE, FALSE>>
    ELSE LET bar == s[consolidation.end_idx + 1]
         IN  <<100 * bar.close > 103 * consolidation.high,
               volume_confirmed(bar.volume, consolidation)>>

\* (downward_breakdown, volume_confirmed)
detect_breakdown(s, consolidation) ==
    IF Len(s) <= consolidation.end_idx THEN <<FALSE, FALSE>>
    ELSE IF Len(s) - consolidation.end_idx < 2 THEN <<FALSE, FALSE>>
    ELSE LET bar == s[consolidation.end_idx + 1]
         IN  <<100 * bar.close < 97 * consolidation.low,
               volume_confirmed(bar.volume, consolidation)>>

----------------------------------------------------------------------------
(* PhaseAnalyzer._determine_phase and analyze_phase                        *)

\* variant: the last rules without the final `else: return PHASE_3_TOP`, so
\* that the function falls off its end and yields Python's None
default_phase_partial(s, ma_direction) ==
    LET all == TailCloses(s, Len(s))
    IN  IF ma_direction = "up" THEN "PHASE_2_RISING"
        ELSE IF ma_direction = "down" THEN "PHASE_4_FALLING"
        ELSE IF 2 * s[Len(s)].close < SetMax(all) + SetMin(all)
        THEN "PHASE_1_BOTTOM"
        ELSE "None"

\* variant: the two labels of a flat average exchanged
default_phase_swapped(s, ma_direction) ==
    LET all == TailCloses(s, Len(s))
    IN  IF ma_direction = "up" THEN "PHASE_2_RISING"
        ELSE IF ma_direction = "down" THEN "PHASE_4_FALLING"
        ELSE IF 2 * s[Len(s)].close < SetMax(all) + SetMin(all)
        THEN "PHASE_3_TOP"
        ELSE "PHASE_1_BOTTOM"

\* the last rules of _determine_phase: by direction, a flat average by the
\* place of the latest close in the whole series' range
default_phase(s, ma_direction) ==
    LET all == TailCloses(s, Len(s))
    IN  IF ma_direction = "up" THEN "PHASE_2_RISING"
        ELSE IF ma_direction = "down" THEN "PHASE_4_FALLING"
        ELSE IF 2 * s[Len(s)].close < SetMax(all) + SetMin(all)
        THEN "PHASE_1_BOTTOM"
        ELSE "PHASE_3_TOP"

\* variant: the top rule (lines 295-299) tested before the bottom rule
\* (lines 288-292)
determine_phase_top_first(s, ma_direction, ratio) ==
    LET last            == s[Len(s)].close
        historical_low  == SetMin(TailCloses(s, 100))
        historical_high == SetMax(TailCloses(s, 100))
        one             == [num |-> 1, den |-> 1]
    IN  IF ma_direction = "up" /\ RatGT(ratio, one)
        THEN "PHASE_2_RISING"
        ELSE IF ma_direction = "down" /\ RatLT(ratio, one)
        THEN "PHASE_4_FALLING"
        ELSE IF /\ ma_direction = "flat"
                /\ ~RatLT(ratio, [num |-> 95, den |-> 100])
                /\ 10 * last > 8 * historical_high
        THEN "PHASE_3_TOP"
        ELSE IF /\ ma_direction = "flat"
                /\ ~RatGT(ratio, [num |-> 105, den |-> 100])
                /\ 10 * last < 12 * historical_low
        THEN "PHASE_1_BOTTOM"
        ELSE default_phase(s, ma_direction)

\* variant: a trend against the price-to-MA ratio is classified by the
\* price position, like a flat average
determine_phase_by_position(s, ma_direction, ratio) ==
    LET last            == s[Len(s)].close
        historical_low  == SetMin(TailCloses(s, 100))
        historical_high == SetMax(TailCloses(s, 100))
        one             == [num |-> 1, den |-> 1]
    IN  IF ma_direction = "up" /\ RatGT(ratio, one)
        THEN "PHASE_2_RISING"
        ELSE IF ma_direction = "down" /\ RatLT(ratio, one)
        THEN "PHASE_4_FALLING"
        ELSE IF /\ ma_direction = "flat"
                /\ ~RatGT(ratio, [num |-> 105, den |-> 100])
                /\ 10 * last < 12 * historical_low
        THEN "PHASE_1_BOTTOM"
        ELSE IF /\ ma_direction = "flat"
                /\ ~RatLT(ratio, [num |-> 95, den |-> 100])
                /\ 10 * last > 8 * historical_high
        THEN "PHASE_3_TOP"
        ELSE default_phase(s, "flat")

determine_phase(s, ma_direction, ratio) ==
    LET last            == s[Len(s)].close
        historical_low  == SetMin(TailCloses(s, 100))
        historical_high == SetMax(TailCloses(s, 100))
        one             == [num |-> 1, den |-> 1]
    IN  IF ma_direction = "up" /\ RatGT(ratio, one)
        THEN "PHASE_2_RISING"
        ELSE IF ma_direction = "down" /\ RatLT(ratio, one)
        THEN "PHASE_4_FALLING"
        ELSE IF /\ ma_direction = "flat"
                /\ ~RatGT(ratio, [num |-> 105, den |-> 100])
                /\ 10 * last < 12 * historical_low
        THEN "PHASE_1_BOTTOM"
        ELSE IF /\ ma_direction = "flat"
                /\ ~RatLT(ratio, [num |-> 95, den |-> 100])
                /\ 10 * last > 8 * historical_high
        THEN "PHASE_3_TOP"
        ELSE default_phase(s, ma_direction)

empty_metrics ==
    [ma30_slope          |-> [num |-> 0, den |-> 1],
     ma30_direction      |-> "flat",
     price_to_ma_ratio   |-> [num |-> 1, den |-> 1],
     consolidation_weeks |-> 0,
     breakout_confirmed  |-> FALSE,
     volume_confirmation |-> FALSE]

analyze_phase(s) ==
    IF Len(s) < ma_period
    THEN [done |-> TRUE, phase |-> "UNKNOWN", metrics |-> empty_metrics]
    ELSE LET ma            == calculate_ma30(s)
             ma_slope      == calculate_ma_slope(ma)
             ma_direction  == get_ma_direction(ma_slope)
             ratio         == price_to_ma_ratio(s[Len(s)].close, ma[Len(s)])
             consolidation_ranges == find_consolidation_ranges(s, ma)
             latest_consolidation ==
                 IF consolidation_ranges = <<>> THEN None
                 ELSE Some(consolidation_ranges[Len(consolidation_ranges)])
             breakout ==
                 IF latest_consolidation = None THEN <<FALSE, FALSE>>
                 ELSE detect_breakout(s, latest_consolidation[1])
         IN  [done    |-> TRUE,
              phase   |-> determine_phase(s, ma_direction, ratio),
              metrics |-> [ma30_slope          |-> ma_slope,
                           ma30_direction      |-> ma_direction,
                           price_to_ma_ratio   |-> ratio,
                           consolidation_weeks |->
                               IF latest_consolidation = None THEN 0
                               ELSE latest_consolidation[1].duration_weeks,
                           breakout_confirmed  |-> breakout[1] /\ breakout[2],
                           volume_confirmation |-> volume_confirmation(s)]]

\* the variant without `df = df.copy()`: the ma30 column of line 212 lands in
\* the caller's frame
caller_ma30_in_place(s, ma_column) ==
    IF Len(s) < ma_period THEN ma_column ELSE Some(calculate_ma30(s))

\* the ma30 column of the caller's frame after analyze_phase: the columns of
\* lines 212-213 are added to the copy of line 211, the frame passed in
\* keeps the columns it had
caller_ma30(s, ma_column) == ma_column

StockPhase ==
    {"UNKNOWN", "PHASE_1_BOTTOM", "PHASE_2_RISING", "PHASE_3_TOP",
     "PHASE_4_FALLING"}

----------------------------------------------------------------------------
(* SignalGenerator.generate_signals.  The frame `df` is the series with    *)
(* the caller's ma30 column: None when the caller added none.              *)

stop_loss_percent == 8

\* fewer bars than this give no signal
min_signal_bars == 30

\* latest volume over the mean of the last 10 volumes, 1.0 when that is not
\* positive
volume_ratio(s) ==
    LET lo  == Max2(1, Len(s) - 9)
        sum == SumVolume(s, lo, Len(s))
    IN  IF sum > 0
        THEN [num |-> s[Len(s)].volume * (Len(s) - lo + 1), den |-> sum]
        ELSE [num |-> 1, den |-> 1]

\* close <= ma, false for an undefined average
close_le_ma(bar, m) == m.def /\ bar.close * m.den <= m.num

\* close < ma
close_lt_ma(bar, m) == m.def /\ bar.close * m.den < m.num

\* close >= ma
close_ge_ma(bar, m) == m.def /\ bar.close * m.den >= m.num

is_new_entry(s, ma, metrics) ==
    /\ metrics.breakout_confirmed
    /\ metrics.volume_confirmation
    /\ metrics.ma30_direction = "up"
    /\ Len(s) >= 3
    /\ ~close_le_ma(s[Len(s)], ma[Len(s)])

\* 0.97 <= close / ma <= 1.03
near_ma(bar, m) ==
    /\ m.def
    /\ IF m.num > 0
       THEN /\ 97 * m.num <= 100 * bar.close * m.den
            /\ 100 * bar.close * m.den <= 103 * m.num
       ELSE /\ m.num < 0
            /\ 97 * m.num >= 100 * bar.close * m.den
            /\ 100 * bar.close * m.den >= 103 * m.num

\* the variant without the test of the next bar
is_add_position_opportunity_any_touch(s, ma) ==
    /\ Len(s) >= 10
    /\ \E i \in (Len(s) - 4)..(Len(s) - 1) : near_ma(s[i], ma[i])

is_add_position_opportunity(s, ma) ==
    /\ Len(s) >= 10
    /\ \E i \in (Len(s) - 4)..(Len(s) - 1) :
          /\ near_ma(s[i], ma[i])
          /\ s[i + 1].close > s[i].close

\* the variant that sells on one week below the average
should_sell_any_week(s, ma, metrics) ==
    /\ metrics.ma30_direction # "up"
    /\ ~close_ge_ma(s[Len(s)], ma[Len(s)])
    /\ Cardinality({i \in Max2(1, Len(s) - 3)..Len(s) :
                        close_lt_ma(s[i], ma[i])}) >= 1

should_sell(s, ma, metrics) ==
    /\ metrics.ma30_direction # "up"
    /\ ~close_ge_ma(s[Len(s)], ma[Len(s)])
    /\ Cardinality({i \in Max2(1, Len(s) - 3)..Len(s) :
                        close_lt_ma(s[i], ma[i])}) >= 2

\* SignalGenerator._calculate_stop_loss, in hundredths of a price unit
signal_stop_loss(s, entry_price) ==
    LET support_level ==
            SetMin({s[i].low : i \in Max2(1, Len(s) - 19)..Len(s)})
    IN  [num |-> Max2(98 * support_level,
                      (100 - stop_loss_percent) * entry_price),
         den |-> 100]

\* a TradeSignal; the reason is the sequence of its sentences
TradeSignal(stock_code, signal_type, phase, s, ma, reason, stop_loss) ==
    [stock_code    |-> stock_code,
     signal_type   |-> signal_type,
     phase         |-> phase,
     current_price |-> s[Len(s)].close,
     ma30_week     |-> ma[Len(s)],
     volume_ratio  |-> volume_ratio(s),
     reason        |-> <<reason>>,
     stop_loss     |-> stop_loss,
     position_size |-> None]

\* the signal of a stock in PHASE_2_RISING
rising_signal(stock_code, s, ma, a) ==
    IF is_new_entry(s, ma, a.metrics)
    THEN TradeSignal(stock_code, "BUY", a.phase, s, ma, "buy",
                     Some(signal_stop_loss(s, s[Len(s)].close)))
    ELSE IF is_add_position_opportunity(s, ma)
    THEN TradeSignal(stock_code, "ADD_POSITION", a.phase, s, ma, "add", None)
    ELSE TradeSignal(stock_code, "HOLD", a.phase, s, ma, "hold_rising", None)

\* the variant that watches a falling stock like a bottoming one
phase_signals_watch_falling(stock_code, s, ma) ==
    LET a == analyze_phase(s)
    IN  IF a.phase \in {"PHASE_1_BOTTOM", "PHASE_4_FALLING"}
        THEN <<TradeSignal(stock_code, "WATCH", a.phase, s, ma, "watch", None)>>
        ELSE IF a.phase = "PHASE_2_RISING"
        THEN <<rising_signal(stock_code, s, ma, a)>>
        ELSE IF a.phase = "PHASE_3_TOP"
        THEN IF should_sell(s, ma, a.metrics)
             THEN <<TradeSignal(stock_code, "SELL", a.phase, s, ma,
                                "sell_top", None)>>
             ELSE <<TradeSignal(stock_code, "HOLD", a.phase, s, ma,
                                "hold_top", None)>>
        ELSE <<>>

\* the signals of a frame of at least min_signal_bars bars, by phase
phase_signals(stock_code, s, ma) ==
    LET a == analyze_phase(s)
    IN  IF a.phase = "PHASE_1_BOTTOM"
        THEN <<TradeSignal(stock_code, "WATCH", a.phase, s, ma, "watch", None)>>
        ELSE IF a.phase = "PHASE_2_RISING"
        THEN <<rising_signal(stock_code, s, ma, a)>>
        ELSE IF a.phase = "PHASE_3_TOP"
        THEN IF should_sell(s, ma, a.metrics)
             THEN <<TradeSignal(stock_code, "SELL", a.phase, s, ma,
                                "sell_top", None)>>
             ELSE <<TradeSignal(stock_code, "HOLD", a.phase, s, ma,
                                "hold_top", None)>>
        ELSE IF a.phase = "PHASE_4_FALLING"
        THEN <<TradeSignal(stock_code, "SELL", a.phase, s, ma,
                           "sell_falling", None)>>
        ELSE <<>>

\* the variant that reads the ma30 column before it tests the length
generate_signals_column_first(stock_code, s, ma_column) ==
    IF ma_column = None THEN Raise
    ELSE IF Len(s) < min_signal_bars
    THEN [kind |-> "signals", signals |-> <<>>]
    ELSE [kind    |-> "signals",
          signals |-> phase_signals(stock_code, s, ma_column[1])]

generate_signals(stock_code, s, ma_column) ==
    IF Len(s) < min_signal_bars THEN [kind |-> "signals", signals |-> <<>>]
    ELSE IF ma_column = None THEN Raise        \* KeyError: latest["ma30"]
    ELSE [kind    |-> "signals",
          signals |-> phase_signals(stock_code, s, ma_column[1])]

----------------------------------------------------------------------------
(* SignalGenerator.filter_signals_by_market                                *)

\* the sentence appended to the reason of a BUY signal in a bottoming market
caution_note == "caution"

\* the signal after the loop body, in a sequence; empty when it is skipped
filter_signal(signal, index_phase) ==
    IF index_phase = "PHASE_4_FALLING" /\ signal.signal_type = "BUY"
    THEN <<>>
    ELSE IF index_phase = "PHASE_1_BOTTOM" /\ signal.signal_type = "BUY"
    THEN <<[signal EXCEPT !.reason = @ \o <<caution_note>>]>>
    ELSE <<signal>>

\* the variant that leaves the loop at the first filtered signal
RECURSIVE filter_signals_by_market_break(_, _)
filter_signals_by_market_break(sigs, index_phase) ==
    IF sigs = <<>> \/ filter_signal(Head(sigs), index_phase) = <<>>
    THEN <<>>
    ELSE filter_signal(Head(sigs), index_phase)
             \o filter_signals_by_market_break(Tail(sigs), index_phase)

RECURSIVE filter_signals_by_market(_, _)
filter_signals_by_market(sigs, index_phase) ==
    IF sigs = <<>> THEN <<>>
    ELSE filter_signal(Head(sigs), index_phase)
             \o filter_signals_by_market(Tail(sigs), index_phase)

\* the caller's list after the call: the kept signals are the list's own
\* objects, so an appended note shows in the input list as well
signals_after_filter(sigs, index_phase) ==
    [i \in 1..Len(sigs) |->
        IF filter_signal(sigs[i], index_phase) = <<>> THEN sigs[i]
        ELSE filter_signal(sigs[i], index_phase)[1]]

----------------------------------------------------------------------------
(* RiskManager.calculate_stop_loss and apply_risk_management.  Prices are   *)
(* in cents; the inputs are chosen so that 98% and 92% of them are whole.  *)

\* the variant that returns the candidate without the final max(...)
calculate_stop_loss_unclamped(entry_price, support_level, atr) ==
    IF /\ support_level # None
       /\ support_level[1] # 0
       /\ support_level[1] < entry_price
    THEN (support_level[1] * 98) \div 100
    ELSE IF atr # None /\ atr[1] # 0
    THEN entry_price - 2 * atr[1]
    ELSE (entry_price * (100 - stop_loss_percent)) \div 100

\* `support_level and support_level < entry_price`, `elif atr`: None and 0
\* are both false
calculate_stop_loss(entry_price, support_level, atr) ==
    LET max_stop == (entry_price * (100 - stop_loss_percent)) \div 100
        stop_loss ==
            IF /\ support_level # None
               /\ support_level[1] # 0
               /\ support_level[1] < entry_price
            THEN (support_level[1] * 98) \div 100
            ELSE IF atr # None /\ atr[1] # 0
            THEN entry_price - 2 * atr[1]
            ELSE (entry_price * (100 - stop_loss_percent)) \div 100
    IN  Max2(stop_loss, max_stop)

\* the variant that also copies the price of the call into the signal
buy_with_risk_repriced(signal, current_price, stop_loss, sizing) ==
    [signal EXCEPT !.current_price = current_price,
                   !.stop_loss     = Some(stop_loss),
                   !.position_size = Some(sizing.shares),
                   !.reason        = @ \o <<"risk_size", "risk_stop">>]

\* the BUY signal after lines 291-297
buy_with_risk(signal, current_price, stop_loss, sizing) ==
    [signal EXCEPT !.stop_loss     = Some(stop_loss),
                   !.position_size = Some(sizing.shares),
                   !.reason        = @ \o <<"risk_size", "risk_stop">>]

\* the ADD_POSITION signal after lines 308-312
add_with_risk(signal, add_sizing) ==
    [signal EXCEPT !.position_size = Some(add_sizing.shares),
                   !.stop_loss     = Some(add_sizing.stop_loss_price),
                   !.reason        = @ \o <<"add_size", "add_stop">>]

\* the signal after the call, or a raise out of the sizing
apply_risk_management(capital, held, signal, current_price, support_level) ==
    IF signal.signal_type = "BUY"
    THEN LET stop_loss == calculate_stop_loss(current_price, support_level,
                                              None)
             sizing    == calculate_position_size(capital, current_price,
                                                  stop_loss, 100)
         IN  IF sizing.kind = "raise" THEN Raise
             ELSE [kind   |-> "signal",
                   signal |-> buy_with_risk(signal, current_price, stop_loss,
                                            sizing)]
    ELSE IF signal.signal_type = "ADD_POSITION"
              /\ signal.stock_code \in DOMAIN held
    THEN LET add_sizing ==
                 calculate_pyramid_add_position(
                     capital, held[signal.stock_code], current_price,
                     current_price)
         IN  IF add_sizing.kind = "raise" THEN Raise
             ELSE IF add_sizing.kind = "none"
             THEN [kind |-> "signal", signal |-> signal]
             ELSE [kind   |-> "signal",
                   signal |-> add_with_risk(signal, add_sizing)]
    ELSE [kind |-> "signal", signal |-> signal]

----------------------------------------------------------------------------
(* Specification of analyze_phase on a weekly series                       *)

\* the steepest per-bar step of a trend series
MaxStep == 2

\* the widest swing of a sideways series around its level, in tenths
MaxSwing == 3

\* a week that closes at its low
Bar(c, v) == [close |-> c, low |-> c, volume |-> v]

\* volume of an ordinary week, and of a week with a volume surge
Volumes == {100, 300}

\* n closes changing by d per bar, the lowest of them `low`; the latest close
\* is then multiplied by f / 10, and the latest bar has volume v
TrendSeries(n, low, d, f, v) ==
    [i \in 1..n |->
        LET c == IF d >= 0 THEN low + d * (i - 1) ELSE low - d * (n - i)
        IN  IF i = n THEN Bar((c * f) \div 10, v) ELSE Bar(c, 100)]

TrendFamily ==
    {TrendSeries(n, 5, d, f, v) :
        n \in {30, 31, 34, 50, 150}, d \in -MaxStep..MaxStep,
        f \in {5, 10, 13}, v \in Volumes}

\* series too short to analyze: trends of up to 22 bars, and 29 equal closes
\* before the latest one
ShortFamily ==
    {TrendSeries(n, 5, d, f, v) :
        n \in {4, 20, 21, 22}, d \in -MaxStep..MaxStep,
        f \in {5, 10, 13}, v \in Volumes}
    \cup {TrendSeries(29, 5, 0, f, v) : f \in {5, 10, 13}, v \in Volumes}

\* falling closes whose latest close rebounds to ten times the trend's value,
\* above the average
ReboundFamily ==
    {TrendSeries(n, 5, d, 100, v) :
        n \in {34, 150}, d \in -MaxStep..-1, v \in Volumes}

\* the scenario series: 150 closes changing linearly between 10 and 25, in
\* units of 1/149 (close i is 1490 + 15 i, or 3725 - 15 i)
ScenarioRising == TrendSeries(150, 1490, 15, 10, 100)

ScenarioFalling == TrendSeries(150, 1490, -15, 10, 100)

\* 150 closes swinging by a tenths around 15.0 with period 4, in units of
\* 0.1; the latest close is `last`
Wave(i) == IF i % 4 = 1 THEN 1 ELSE IF i % 4 = 3 THEN -1 ELSE 0

SidewaysSeries(a, shift, last) ==
    [i \in 1..150 |->
        IF i = 150 THEN Bar(last, 100)
        ELSE Bar(150 + a * Wave(i + shift), 100)]

SidewaysFamily ==
    {SidewaysSeries(a, shift, 150 + e) :
        a \in 0..MaxSwing, shift \in 0..3, e \in {-MaxSwing, 0, MaxSwing}}

\* n closes at 100 with one earlier close at `spike` and the latest at `last`
SpikeSeries(n, at, spike, last) ==
    [i \in 1..n |->
        IF i = n THEN Bar(last, 100)
        ELSE IF i = at THEN Bar(spike, 100)
        ELSE Bar(100, 100)]

SpikeFamily ==
    {SpikeSeries(n, at, spike, last) :
        n \in {60, 150}, at \in {10, 55}, spike \in {50, 200},
        last \in {70, 100, 130, 155, 170}}

\* a rising trend of 34 closes from 5 whose two closes before the latest
\* pull back to `touch` and then `dip`
PullbackSeries(d, touch, dip) ==
    [i \in 1..34 |->
        IF i = 32 THEN Bar(touch, 100)
        ELSE IF i = 33 THEN Bar(dip, 100)
        ELSE TrendSeries(34, 5, d, 10, 100)[i]]

PullbackFamily ==
    {PullbackSeries(d, touch, dip) :
        d \in 1..MaxStep, touch \in {21, 36}, dip \in {15, 22, 37}}

\* 60 closes at 100 with an early low of 50, the last `weeks` of them at
\* `last`: a top that weakens
ToppingSeries(weeks, last) ==
    [i \in 1..60 |->
        IF i > 60 - weeks THEN Bar(last, 100)
        ELSE IF i = 10 THEN Bar(50, 100)
        ELSE Bar(100, 100)]

ToppingFamily ==
    {ToppingSeries(weeks, last) : weeks \in 1..3, last \in {96, 99, 101}}

\* 30 bars without a trade: every close is 0
ZeroSeries == [i \in 1..ma_period |-> Bar(0, 100)]

SeriesFamily ==
    TrendFamily \cup ShortFamily \cup ReboundFamily
        \cup {ScenarioRising, ScenarioFalling, ZeroSeries}
        \cup SidewaysFamily \cup SpikeFamily \cup PullbackFamily
        \cup ToppingFamily

\* codes of the configured stock pool
StockCodes == {"000001", "600519"}

\* the stock whose series is analyzed
ScannedCode == "000001"

InitPhase ==
    /\ total_capital = 0
    /\ position = NoPosition
    /\ call = NoCall
    /\ ret = NoResult
    /\ pc = "idle"
    /\ adds = <<>>
    /\ series \in SeriesFamily
    /\ analysis = NotAnalyzed
    /\ ma30 = None
    /\ signals = <<>>
    /\ positions = NoPositions

\* The callers run in this order: the ma30 column (task_scheduler and
\* analyze_600489; stock_scanner adds none), the slope of the column
\* (analyze_600489), analyze_phase, generate_signals.
AnalyzePhase ==
    /\ ~analysis.done
    /\ call.op = "none"
    /\ analysis' = analyze_phase(series)
    /\ ma30' = caller_ma30(series, ma30)
    /\ UNCHANGED <<series, signals, positions>>
    /\ UNCHANGED risk_vars

\* the caller adds the ma30 column to the frame
CalculateMa30 ==
    /\ ma30 = None
    /\ ~analysis.done
    /\ ma30' = Some(calculate_ma30(series))
    /\ UNCHANGED <<signals, positions>>
    /\ UNCHANGED phase_vars
    /\ UNCHANGED risk_vars

\* calculate_ma_slope on the ma30 column
CalculateMaSlope ==
    /\ ma30 # None
    /\ ~analysis.done
    /\ call.op = "none"
    /\ call' = [NoCall EXCEPT !.op = "calculate_ma_slope"]
    /\ ret' = [kind |-> "slope", slope |-> calculate_ma_slope(ma30[1])]
    /\ UNCHANGED <<total_capital, position, pc, adds>>
    /\ UNCHANGED phase_vars
    /\ UNCHANGED signal_vars

\* find_consolidation_ranges on the frame with its ma30 column
FindConsolidationRanges ==
    /\ ma30 # None
    /\ ~analysis.done
    /\ call.op = "none"
    /\ call' = [NoCall EXCEPT !.op = "find_consolidation_ranges"]
    /\ ret' = [kind   |-> "ranges",
               ranges |-> find_consolidation_ranges(series, ma30[1])]
    /\ UNCHANGED <<total_capital, position, pc, adds>>
    /\ UNCHANGED phase_vars
    /\ UNCHANGED signal_vars

GenerateSignals ==
    /\ analysis.done
    /\ call.op = "none"
    /\ call' = [NoCall EXCEPT !.op = "generate_signals",
                              !.stock_code = ScannedCode]
    /\ ret' = generate_signals(ScannedCode, series, ma30)
    /\ signals' = IF ret'.kind = "signals" THEN ret'.signals ELSE signals
    /\ UNCHANGED <<ma30, positions>>
    /\ UNCHANGED <<total_capital, position, pc, adds>>
    /\ UNCHANGED phase_vars

NextPhase ==
    \/ AnalyzePhase
    \/ CalculateMa30
    \/ CalculateMaSlope
    \/ FindConsolidationRanges
    \/ GenerateSignals

SpecPhase == InitPhase /\ [][NextPhase]_vars

----------------------------------------------------------------------------
(* Specification of detect_breakout and detect_breakdown on the            *)
(* consolidation ranges of a series                                        *)

\* the most bars that follow the flat stretch of a breakout series
MaxTail == 2

TailBars == {Bar(c, v) : c \in {96, 100, 104}, v \in {100, 250}}

\* every sequence of n tail bars
RECURSIVE Tails(_)
Tails(n) ==
    IF n = 0 THEN {<<>>}
    ELSE {<<b>> \o tl : b \in TailBars, tl \in Tails(n - 1)}

\* 27 flat weeks at 100, the last of them with volume v, then the tail
BreakoutSeries(v, tl) ==
    [i \in 1..26 |-> Bar(100, 100)] \o <<Bar(100, v)>> \o tl

BreakoutFamily ==
    {BreakoutSeries(v, tl) :
        v \in {100, 250}, tl \in UNION {Tails(n) : n \in 0..MaxTail}}

InitBreak ==
    /\ total_capital = 0
    /\ position = NoPosition
    /\ call = NoCall
    /\ ret = NoResult
    /\ pc = "idle"
    /\ adds = <<>>
    /\ series \in BreakoutFamily
    /\ analysis = NotAnalyzed
    /\ ma30 = None
    /\ signals = <<>>
    /\ positions = NoPositions

\* the ranges find_consolidation_ranges finds in the series
SeriesRanges == find_consolidation_ranges(series, calculate_ma30(series))

Flags(f) == [kind |-> "flags", price |-> f[1], volume |-> f[2]]

DetectBreakout ==
    /\ call.op = "none"
    /\ \E k \in 1..Len(SeriesRanges) :
          /\ call' = [NoCall EXCEPT !.op = "detect_breakout",
                                    !.consolidation = Some(SeriesRanges[k])]
          /\ ret' = Flags(detect_breakout(series, SeriesRanges[k]))
    /\ UNCHANGED <<total_capital, position, pc, adds>>
    /\ UNCHANGED phase_vars
    /\ UNCHANGED signal_vars

DetectBreakdown ==
    /\ call.op = "none"
    /\ \E k \in 1..Len(SeriesRanges) :
          /\ call' = [NoCall EXCEPT !.op = "detect_breakdown",
                                    !.consolidation = Some(SeriesRanges[k])]
          /\ ret' = Flags(detect_breakdown(series, SeriesRanges[k]))
    /\ UNCHANGED <<total_capital, position, pc, adds>>
    /\ UNCHANGED phase_vars
    /\ UNCHANGED signal_vars

NextBreak ==
    \/ DetectBreakout
    \/ DetectBreakdown

SpecBreak == InitBreak /\ [][NextBreak]_vars

----------------------------------------------------------------------------
(* Specification of filter_signals_by_market on a list of signals          *)

\* the longest list of signals
MaxSignals == 3

SignalTypes == {"BUY", "SELL", "HOLD", "WATCH", "ADD_POSITION"}

\* a signal of the given stock and type at price 10.00 above an average of
\* 9.50
PoolSignal(code, type) ==
    [stock_code    |-> code,
     signal_type   |-> type,
     phase         |-> "PHASE_2_RISING",
     current_price |-> 1000,
     ma30_week     |-> [def |-> TRUE, num |-> 28500, den |-> 30],
     volume_ratio  |-> [num |-> 1, den |-> 1],
     reason        |-> <<"reason">>,
     stop_loss     |-> None,
     position_size |-> None]

SignalPool ==
    {PoolSignal(code, type) :
        code \in StockCodes, type \in {"BUY", "SELL", "ADD_POSITION"}}

RECURSIVE SignalLists(_)
SignalLists(n) ==
    IF n = 0 THEN {<<>>}
    ELSE SignalLists(n - 1)
           \cup {<<sig>> \o l : sig \in SignalPool,
                                 l \in {x \in SignalLists(n - 1) :
                                            Len(x) = n - 1}}

InitFilter ==
    /\ total_capital = 0
    /\ position = NoPosition
    /\ call = NoCall
    /\ ret = NoResult
    /\ pc = "idle"
    /\ adds = <<>>
    /\ series = <<>>
    /\ analysis = NotAnalyzed
    /\ ma30 = None
    /\ signals \in SignalLists(MaxSignals)
    /\ positions = NoPositions

FilterSignalsByMarket ==
    /\ call.op = "none"
    /\ \E index_phase \in StockPhase :
          /\ call' = [NoCall EXCEPT !.op = "filter_signals_by_market",
                                    !.index_phase = index_phase,
                                    !.signals = signals]
          /\ ret' = [kind    |-> "signals",
                     signals |-> filter_signals_by_market(signals,
                                                          index_phase)]
          /\ signals' = signals_after_filter(signals, index_phase)
    /\ UNCHANGED <<ma30, positions>>
    /\ UNCHANGED <<total_capital, position, pc, adds>>
    /\ UNCHANGED phase_vars

NextFilter == FilterSignalsByMarket

SpecFilter == InitFilter /\ [][NextFilter]_vars

----------------------------------------------------------------------------
(* Specification of apply_risk_management on one signal                    *)

\* the positions of the manager: none, as the program leaves them, or one
\* that a client stored under its stock code
HeldPositions ==
    {NoPositions,
     [c \in {"000001"} |-> [entry_price |-> 1000, stop_loss |-> 900]]}

SignalPrices == {0, 1000, 1200}

SupportLevels == {None, Some(0), Some(950), Some(1100)}

InitRisk ==
    /\ total_capital \in Capitals
    /\ position = NoPosition
    /\ call = NoCall
    /\ ret = NoResult
    /\ pc = "idle"
    /\ adds = <<>>
    /\ series = <<>>
    /\ analysis = NotAnalyzed
    /\ ma30 = None
    /\ signals \in {<<PoolSignal(code, type)>> :
                        code \in StockCodes, type \in SignalTypes}
    /\ positions \in HeldPositions

ApplyRiskManagement ==
    /\ call.op = "none"
    /\ \E current_price \in SignalPrices, support_level \in SupportLevels :
          /\ call' = [NoCall EXCEPT !.op = "apply_risk_management",
                                    !.current_price = current_price,
                                    !.support_level = support_level,
                                    !.signals = signals]
          /\ ret' = apply_risk_management(total_capital, positions,
                                          signals[1], current_price,
                                          support_level)
    /\ signals' = IF ret'.kind = "signal" THEN <<ret'.signal>> ELSE signals
    /\ UNCHANGED <<ma30, positions>>
    /\ UNCHANGED <<total_capital, position, pc, adds>>
    /\ UNCHANGED phase_vars

NextRisk == ApplyRiskManagement

SpecRisk == InitRisk /\ [][NextRisk]_vars

----------------------------------------------------------------------------
(* Claims about analyze_phase (specification SpecPhase)                    *)

Analyzed == analysis.done

LastClose == series[Len(series)].close

PositiveCloses == \A i \in 1..Len(series) : series[i].close > 0

StrictlyIncreasing ==
    \A i \in 1..(Len(series) - 1) : series[i].close < series[i + 1].close

StrictlyDecreasing ==
    \A i \in 1..(Len(series) - 1) : series[i].close > series[i + 1].close

AllEqual ==
    \A i \in 1..(Len(series) - 1) : series[i].close = series[i + 1].close

Zero == [num |-> 0, den |-> 1]

\* C2: analyze_phase on a series of at least 30 bars returns a value of the
\* enumeration StockPhase; no path through _determine_phase ends without one.
C2_PhaseTotality ==
    Analyzed /\ Len(series) >= ma_period => analysis.phase \in StockPhase

\* C2 witness: a series of at least 30 bars with a flat average that neither
\* the bottom rule nor the top rule matched has been labelled by the last
\* `else` of _determine_phase.
C2_Witness ==
    /\ Analyzed
    /\ Len(series) >= ma_period
    /\ analysis.metrics.ma30_direction = "flat"
    /\ 10 * LastClose <= 8 * SetMax(TailCloses(series, 100))
    /\ 10 * LastClose >= 12 * SetMin(TailCloses(series, 100))
    /\ analysis.phase = "PHASE_3_TOP"

C7_LinearTrendAsStated ==
    Analyzed =>
        /\ series = ScenarioRising =>
              /\ analysis.phase = "PHASE_2_RISING"
              /\ analysis.metrics.ma30_direction = "up"
        /\ series = ScenarioFalling =>
              /\ analysis.phase = "PHASE_4_FALLING"
              /\ analysis.metrics.ma30_direction = "down"

\* a 150-bar series whose closes all lie within 0.3 of 15 (closes in tenths)
WithinFlatBand ==
    /\ Len(series) = 150
    /\ \A i \in 1..Len(series) :
          series[i].close >= 147 /\ series[i].close <= 153

AtTrailingLow == LastClose = SetMin(TailCloses(series, 100))

AtTrailingHigh == LastClose = SetMax(TailCloses(series, 100))

\* C8, as stated: a 150-bar series with closes within 0.3 of 15 is labelled
\* BOTTOM when the latest close is at the low of the last 100 closes, and TOP
\* when it is at their high (and above their low).
C8_FlatScenarioAsStated ==
    Analyzed /\ WithinFlatBand =>
        /\ AtTrailingLow => analysis.phase = "PHASE_1_BOTTOM"
        /\ AtTrailingHigh /\ ~AtTrailingLow => analysis.phase = "PHASE_3_TOP"

\* C8, amended: a 150-bar series with closes within 0.3 of 15 has a flat
\* average and is labelled BOTTOM wherever its latest close lies, at the high
\* of the last 100 closes as well as at their low: the bottom rule is tested
\* first and the whole band is below 1.2 times its low.
C8_FlatScenario ==
    Analyzed /\ WithinFlatBand =>
        /\ analysis.metrics.ma30_direction = "flat"
        /\ analysis.phase = "PHASE_1_BOTTOM"

\* C8 witness: a series within the band whose latest close is the high of the
\* last 100 closes, above their low, has been labelled BOTTOM.
C8_Witness ==
    /\ Analyzed
    /\ WithinFlatBand
    /\ AtTrailingHigh
    /\ ~AtTrailingLow
    /\ analysis.phase = "PHASE_1_BOTTOM"

----------------------------------------------------------------------------
(* Claims about the analysis pipeline (specification SpecPhase)            *)

Generated == call.op = "generate_signals"

NoSignals == [kind |-> "signals", signals |-> <<>>]

\* C11 as stated: for fewer than 30 bars analyze_phase gives UNKNOWN with
\* every numeric metric 0 and both booleans false, and generate_signals
\* returns the empty list.
C11_InsufficientDataAsStated ==
    (Len(series) < ma_period) =>
        /\ Analyzed =>
              /\ analysis.phase = "UNKNOWN"
              /\ analysis.metrics.ma30_slope.num = 0
              /\ analysis.metrics.price_to_ma_ratio.num = 0
              /\ analysis.metrics.consolidation_weeks = 0
              /\ ~analysis.metrics.breakout_confirmed
              /\ ~analysis.metrics.volume_confirmation
        /\ Generated => ret = NoSignals

\* C11: for fewer than 30 bars analyze_phase does not raise and gives
\* UNKNOWN with slope 0, direction flat, price-to-average ratio 1, 0
\* consolidation weeks and both booleans false, and generate_signals
\* returns the empty list, with or without an ma30 column.
C11_InsufficientData ==
    (Len(series) < ma_period) =>
        /\ Analyzed =>
              /\ analysis.phase = "UNKNOWN"
              /\ analysis.metrics.ma30_slope.num = 0
              /\ analysis.metrics.ma30_direction = "flat"
              /\ analysis.metrics.price_to_ma_ratio.num
                    = analysis.metrics.price_to_ma_ratio.den
              /\ analysis.metrics.consolidation_weeks = 0
              /\ ~analysis.metrics.breakout_confirmed
              /\ ~analysis.metrics.volume_confirmation
        /\ Generated => ret = NoSignals /\ signals = <<>>

C11_Witness ==
    /\ Len(series) = ma_period - 1
    /\ Analyzed
    /\ Generated
    /\ ma30 = None
    /\ ret = NoSignals

\* the sum of the closes of bars lo..hi, from the oldest on
RECURSIVE WindowSum(_, _, _)
WindowSum(s, lo, hi) ==
    IF lo > hi THEN 0 ELSE s[lo].close + WindowSum(s, lo + 1, hi)

\* the first bar (from 1) of the 30-bar window that ends at bar i
WindowStart(i) == IF i > 30 THEN i - 29 ELSE 1

SlopeTaken == call.op = "calculate_ma_slope"

\* the indices of the defined values among the last 5 of the column
DefinedTail ==
    {i \in Max2(1, Len(ma30[1]) - 4)..Len(ma30[1]) : ma30[1][i].def}

\* value i of the column is less than value j
ColumnLess(i, j) ==
    ma30[1][i].num * ma30[1][j].den < ma30[1][j].num * ma30[1][i].den

\* C18: calculate_ma_slope returns 0 when fewer than 2 of the last 5 values
\* of the column are defined; otherwise, for positive values, the result
\* is strictly positive when they strictly increase, strictly negative
\* when they strictly decrease, and 0 when they are all equal.
C18_SlopeSignOfColumn ==
    SlopeTaken =>
        /\ Cardinality(DefinedTail) < 2 => ret.slope.num = 0
        /\ (/\ Cardinality(DefinedTail) >= 2
            /\ \A i \in DefinedTail : ma30[1][i].num > 0) =>
              /\ (\A i, j \in DefinedTail : i < j => ColumnLess(i, j))
                    => RatGT(ret.slope, Zero)
              /\ (\A i, j \in DefinedTail : i < j => ColumnLess(j, i))
                    => RatLT(ret.slope, Zero)
              /\ (\A i, j \in DefinedTail :
                      ~ColumnLess(i, j) /\ ~ColumnLess(j, i))
                    => ret.slope.num = 0

\* two defined values, the later one higher: the slope is positive
C18_Witness ==
    /\ SlopeTaken
    /\ Len(series) = 21
    /\ Cardinality(DefinedTail) = 2
    /\ ColumnLess(20, 21)
    /\ RatGT(ret.slope, Zero)

\* the rules of the phase in their order, for the direction and the ratio
\* of the analysis: whether the rule matches, and its label
PhaseRules ==
    LET direction == analysis.metrics.ma30_direction
        ratio     == analysis.metrics.price_to_ma_ratio
        low100    == SetMin(TailCloses(series, 100))
        high100   == SetMax(TailCloses(series, 100))
        low       == SetMin(TailCloses(series, Len(series)))
        high      == SetMax(TailCloses(series, Len(series)))
    IN  <<[match |-> direction = "up" /\ ratio.num > ratio.den,
           label |-> "PHASE_2_RISING"],
          [match |-> direction = "down" /\ ratio.num < ratio.den,
           label |-> "PHASE_4_FALLING"],
          [match |-> /\ direction = "flat"
                     /\ 100 * ratio.num <= 105 * ratio.den
                     /\ 10 * LastClose < 12 * low100,
           label |-> "PHASE_1_BOTTOM"],
          [match |-> /\ direction = "flat"
                     /\ 100 * ratio.num >= 95 * ratio.den
                     /\ 10 * LastClose > 8 * high100,
           label |-> "PHASE_3_TOP"],
          [match |-> direction = "up", label |-> "PHASE_2_RISING"],
          [match |-> direction = "down", label |-> "PHASE_4_FALLING"],
          [match |-> 2 * LastClose < high + low,
           label |-> "PHASE_1_BOTTOM"],
          [match |-> TRUE, label |-> "PHASE_3_TOP"]>>

FirstMatch ==
    CHOOSE k \in 1..Len(PhaseRules) :
        /\ PhaseRules[k].match
        /\ \A j \in 1..(k - 1) : ~PhaseRules[j].match

\* C19: for at least 30 bars the phase is the label of the first matching
\* rule in the order RISING (up, ratio > 1), FALLING (down, ratio < 1),
\* BOTTOM (flat, ratio <= 1.05, close < 1.2 x 100-bar low), TOP (flat,
\* ratio >= 0.95, close > 0.8 x 100-bar high), then by direction, a flat
\* average by the middle of the whole series' range; BOTTOM when the
\* BOTTOM and TOP rules both match.
C19_PhaseRuleOrder ==
    (Analyzed /\ Len(series) >= ma_period) =>
        /\ analysis.metrics.price_to_ma_ratio.den > 0
        /\ analysis.phase = PhaseRules[FirstMatch].label
        /\ (PhaseRules[3].match /\ PhaseRules[4].match)
              => analysis.phase = "PHASE_1_BOTTOM"

\* the BOTTOM rule and the TOP rule both match
C19_Witness ==
    /\ Analyzed
    /\ Len(series) >= ma_period
    /\ ~PhaseRules[1].match
    /\ ~PhaseRules[2].match
    /\ PhaseRules[3].match
    /\ PhaseRules[4].match
    /\ analysis.phase = "PHASE_1_BOTTOM"

Rising == Analyzed /\ analysis.phase = "PHASE_2_RISING"

\* the latest close is above the latest value of the column
AboveAverage ==
    LET m == ma30[1][Len(series)]
    IN  m.def /\ LastClose * m.den > m.num

BuyConditions ==
    /\ analysis.metrics.breakout_confirmed
    /\ analysis.metrics.volume_confirmation
    /\ analysis.metrics.ma30_direction = "up"
    /\ AboveAverage

\* close / average of bar i lies in [0.97, 1.03], for a positive average
TouchesAverage(i) ==
    LET m == ma30[1][i]
    IN  /\ m.def
        /\ m.num > 0
        /\ 100 * series[i].close * m.den >= 97 * m.num
        /\ 100 * series[i].close * m.den <= 103 * m.num

AddConditions ==
    \E i \in (Len(series) - 4)..(Len(series) - 1) :
        TouchesAverage(i) /\ series[i + 1].close > series[i].close

\* C20: in the RISING phase generate_signals emits one signal: BUY iff
\* breakout_confirmed, volume_confirmation, direction up and the latest
\* close above the average all hold; otherwise ADD_POSITION iff one of the
\* last 5 bars other than the final one has close / average in
\* [0.97, 1.03] and the next bar closes strictly higher; otherwise HOLD.
C20_RisingSignalPriority ==
    (Generated /\ Rising /\ ma30 # None) =>
        /\ ret.kind = "signals"
        /\ Len(ret.signals) = 1
        /\ ret.signals[1].signal_type =
              IF BuyConditions THEN "BUY"
              ELSE IF AddConditions THEN "ADD_POSITION"
              ELSE "HOLD"

\* a pullback to the average followed by a higher close: ADD_POSITION
C20_Witness ==
    /\ Generated
    /\ Rising
    /\ ma30 # None
    /\ Len(series) = 34
    /\ ~BuyConditions
    /\ TouchesAverage(33)
    /\ ret.signals[1].signal_type = "ADD_POSITION"

Topping == Analyzed /\ analysis.phase = "PHASE_3_TOP"

\* bar i closes strictly below the value of the column at i
BelowAverage(i) ==
    LET m == ma30[1][i]
    IN  m.def /\ series[i].close * m.den < m.num

SellConditions ==
    /\ analysis.metrics.ma30_direction # "up"
    /\ BelowAverage(Len(series))
    /\ \E i, j \in (Len(series) - 3)..Len(series) :
          i # j /\ BelowAverage(i) /\ BelowAverage(j)

\* C21: in the TOP phase generate_signals emits one signal: SELL iff the
\* direction is not up, the latest close is strictly below the latest
\* average and at least 2 of the last 4 bars, the latest included, close
\* below the average; HOLD in every other case.
C21_TopSellRule ==
    (Generated /\ Topping /\ ma30 # None) =>
        /\ ret.kind = "signals"
        /\ Len(ret.signals) = 1
        /\ ret.signals[1].signal_type =
              IF SellConditions THEN "SELL" ELSE "HOLD"

\* two weeks below the average at a top: SELL
C21_Witness ==
    /\ Generated
    /\ Topping
    /\ ma30 # None
    /\ SellConditions
    /\ ret.signals[1].signal_type = "SELL"

\* generate_signals has run on a frame of at least 30 bars that carries
\* its ma30 column
GeneratedWithColumn ==
    Generated /\ Analyzed /\ ma30 # None /\ Len(series) >= min_signal_bars

\* C22 as stated: such a frame gets exactly one signal, with the phase of
\* analyze_phase, of kind WATCH iff the phase is BOTTOM, SELL whenever it is
\* FALLING, in {BUY, ADD_POSITION, HOLD} iff it is RISING and in
\* {SELL, HOLD} iff it is TOP.
C22_OneSignalPerPhaseAsStated ==
    GeneratedWithColumn =>
        /\ ret.kind = "signals"
        /\ Len(ret.signals) = 1
        /\ ret.signals[1].phase = analysis.phase
        /\ ret.signals[1].signal_type = "WATCH"
              <=> analysis.phase = "PHASE_1_BOTTOM"
        /\ analysis.phase = "PHASE_4_FALLING"
              => ret.signals[1].signal_type = "SELL"
        /\ ret.signals[1].signal_type \in {"BUY", "ADD_POSITION", "HOLD"}
              <=> analysis.phase = "PHASE_2_RISING"
        /\ ret.signals[1].signal_type \in {"SELL", "HOLD"}
              <=> analysis.phase = "PHASE_3_TOP"

\* C22: such a frame gets exactly one signal, with the phase of
\* analyze_phase, of kind WATCH iff the phase is BOTTOM, SELL if it is
\* FALLING, in {BUY, ADD_POSITION, HOLD} if it is RISING and in
\* {SELL, HOLD} if it is TOP; BUY and ADD_POSITION occur only for RISING,
\* SELL only for TOP and FALLING, HOLD only for RISING and TOP.
C22_OneSignalPerPhase ==
    GeneratedWithColumn =>
        /\ ret.kind = "signals"
        /\ Len(ret.signals) = 1
        /\ ret.signals[1].phase = analysis.phase
        /\ ret.signals[1].signal_type = "WATCH"
              <=> analysis.phase = "PHASE_1_BOTTOM"
        /\ analysis.phase = "PHASE_4_FALLING"
              => ret.signals[1].signal_type = "SELL"
        /\ analysis.phase = "PHASE_2_RISING"
              => ret.signals[1].signal_type
                    \in {"BUY", "ADD_POSITION", "HOLD"}
        /\ analysis.phase = "PHASE_3_TOP"
              => ret.signals[1].signal_type \in {"SELL", "HOLD"}
        /\ ret.signals[1].signal_type \in {"BUY", "ADD_POSITION"}
              => analysis.phase = "PHASE_2_RISING"
        /\ ret.signals[1].signal_type = "SELL"
              => analysis.phase \in {"PHASE_3_TOP", "PHASE_4_FALLING"}
        /\ ret.signals[1].signal_type = "HOLD"
              => analysis.phase \in {"PHASE_2_RISING", "PHASE_3_TOP"}

\* a falling stock gets a SELL, a kind the TOP phase also produces
C22_Witness ==
    /\ GeneratedWithColumn
    /\ analysis.phase = "PHASE_4_FALLING"
    /\ ret.signals = <<signals[1]>>
    /\ signals[1].signal_type = "SELL"
    /\ signals[1].phase = "PHASE_4_FALLING"

----------------------------------------------------------------------------
(* Specification of the calculate_stop_loss calls                          *)

\* support levels in cents: none, 0.00, two below an entry of 10.00 (one
\* whose 98% is under the 8% floor, one whose 98% is over it), 10.00, 11.00
StopSupports == {None, Some(0), Some(900), Some(950), Some(1000), Some(1100)}

\* average true ranges in cents: none, 0.00, 0.20, 10.00
Atrs == {None, Some(0), Some(20), Some(1000)}

CalculateStopLoss ==
    \E e \in Prices, s \in StopSupports, a \in Atrs :
        /\ call' = [NoCall EXCEPT !.op = "calculate_stop_loss",
                                  !.entry_price = e,
                                  !.support_level = s,
                                  !.atr = a]
        /\ ret' = [kind |-> "stop", stop |-> calculate_stop_loss(e, s, a)]
        /\ UNCHANGED <<total_capital, position, pc, adds>>
        /\ UNCHANGED phase_vars
        /\ UNCHANGED signal_vars

NextInitialStop == CalculateStopLoss

SpecInitialStop == Init /\ [][NextInitialStop]_vars

----------------------------------------------------------------------------
(* Claims about calculate_stop_loss (specification SpecInitialStop)        *)

StopCalculated == call.op = "calculate_stop_loss" /\ ret.kind = "stop"

\* entry x (1 - stop_loss_percent/100), in hundredths of a cent
HardFloor100 == call.entry_price * (100 - stop_loss_percent)

\* the candidate in hundredths of a cent, where `given` says which support
\* levels and which ATRs count as given
Candidate100(support_given, atr_given) ==
    IF support_given /\ call.support_level[1] < call.entry_price
    THEN call.support_level[1] * 98
    ELSE IF atr_given
    THEN 100 * (call.entry_price - 2 * call.atr[1])
    ELSE HardFloor100

\* C23 as stated: the candidate is support x 0.98 when a support level
\* below entry is given, else entry - 2 x atr when an ATR is given, else the
\* percentage stop, and the result is max(candidate, hard floor).
C23_InitialStopAsStated ==
    StopCalculated =>
        100 * ret.stop =
            Max2(Candidate100(call.support_level # None, call.atr # None),
                 HardFloor100)

\* C23: the candidate is support x 0.98 when a non-zero support level below
\* entry is given, else entry - 2 x atr when a non-zero ATR is given, else
\* the percentage stop; the result is max(candidate, hard floor), so it is
\* never below the hard floor, and a support level that is not below entry
\* changes nothing.
C23_InitialStop ==
    StopCalculated =>
        /\ 100 * ret.stop =
              Max2(Candidate100(/\ call.support_level # None
                                /\ call.support_level[1] # 0,
                                call.atr # None /\ call.atr[1] # 0),
                   HardFloor100)
        /\ 100 * ret.stop >= HardFloor100
        /\ (/\ call.support_level # None
            /\ call.support_level[1] >= call.entry_price)
              => ret.stop = calculate_stop_loss(call.entry_price, None,
                                                call.atr)

\* an entry at 10.00 with a support at 9.50 and an ATR of 10.00 gets the
\* stop 9.31 under the support, above the floor 9.20 and the ATR stop
C23_Witness ==
    /\ StopCalculated
    /\ call.entry_price = 1000
    /\ call.support_level = Some(950)
    /\ call.atr = Some(1000)
    /\ ret.stop = 931

----------------------------------------------------------------------------
(* Claims about calculate_pyramid_add_position (specification SpecStop)    *)

\* calculate_pyramid_add_position has returned and the caller has not yet
\* written the stop back: position is the position the call was made with
Pyramided == call.op = "calculate_pyramid_add_position" /\ pc = "returned"

\* int(original_sizing.shares * add_ratio / 100) * 100 with the add ratio 1.0
\* of a Position, which has no add_count
AddOnShares ==
    Floor(RefShares(total_capital, position.entry_price,
                    position.stop_loss, 100), 100) * 100

\* C25: calculate_pyramid_add_position returns none whenever
\* current_price <= position.entry_price, and (for a position with a
\* positive entry price) also whenever the add-on share count is below 100;
\* in every other case it returns a sizing whose shares are a multiple of 100
\* that is >= 100 and whose stop_loss_price is
\* max(add_price x 0.95, position.stop_loss).
C25_NoAddIntoLoss ==
    Pyramided =>
        /\ call.current_price <= position.entry_price => ret.kind = "none"
        /\ position.entry_price > 0 =>
              IF call.current_price <= position.entry_price \/ AddOnShares < 100
              THEN ret.kind = "none"
              ELSE /\ ret.kind = "sizing"
                   /\ ret.shares = AddOnShares
                   /\ ret.shares % 100 = 0
                   /\ ret.shares >= 100
                   /\ 100 * ret.stop_loss_price =
                         Max2(95 * call.add_price, 100 * position.stop_loss)

\* a position entered at 10.00 with its stop at 15.00 trades at 11.00 and an
\* add-on at 12.00 is sized: the unified stop stays at 15.00, above 11.40
C25_Witness ==
    /\ Pyramided
    /\ position = [entry_price |-> 1000, stop_loss |-> 1500]
    /\ call.current_price = 1100
    /\ call.add_price = 1200
    /\ ret.kind = "sizing"
    /\ ret.shares >= 100
    /\ ret.stop_loss_price = 1500

----------------------------------------------------------------------------
(* Claims about find_consolidation_ranges (specification SpecPhase)        *)

RangesFound == call.op = "find_consolidation_ranges" /\ ret.kind = "ranges"

\* the closes of the 8-bar window that starts at (0-based) bar i
WindowCloses(i) == {series[j].close : j \in (i + 1)..(i + min_weeks)}

\* the 0-based starts of the 8-bar windows whose close spread over mean
\* close is under 0.15 and whose MA deviation over MA mean is under 0.02
QualifyingStarts ==
    {i \in 0..(Len(series) - min_weeks) :
        /\ price_range_below(series, i)
        /\ ma_flat(ma30[1], i)}

\* C26: find_consolidation_ranges returns one range for every qualifying
\* 8-bar window, in ascending start order and without merging overlapping
\* windows; every range has start_idx <= end_idx,
\* duration_weeks = end_idx - start_idx + 1 = 8 and high >= low, the maximum
\* and minimum close of its window; the result is empty for fewer than 8
\* bars, and analyze_phase reports consolidation_weeks 0 or 8, with 0 and no
\* breakout for fewer than 8 bars.
C26_ConsolidationRanges ==
    /\ RangesFound =>
          /\ Len(ret.ranges) = Cardinality(QualifyingStarts)
          /\ {ret.ranges[k].start_idx : k \in 1..Len(ret.ranges)}
                = QualifyingStarts
          /\ \A k \in 1..(Len(ret.ranges) - 1) :
                ret.ranges[k].start_idx < ret.ranges[k + 1].start_idx
          /\ \A k \in 1..Len(ret.ranges) :
                LET r == ret.ranges[k]
                IN  /\ r.start_idx <= r.end_idx
                    /\ r.duration_weeks = r.end_idx - r.start_idx + 1
                    /\ r.duration_weeks = 8
                    /\ r.high >= r.low
                    /\ r.high = SetMax(WindowCloses(r.start_idx))
                    /\ r.low = SetMin(WindowCloses(r.start_idx))
          /\ Len(series) < 8 => ret.ranges = <<>>
    /\ Analyzed =>
          /\ analysis.metrics.consolidation_weeks \in {0, 8}
          /\ Len(series) < 8 =>
                /\ analysis.metrics.consolidation_weeks = 0
                /\ ~analysis.metrics.breakout_confirmed

\* a series has overlapping qualifying windows, each returned as a range of
\* its own, and a window between the first and the last that does not
\* qualify
C26_Witness ==
    /\ RangesFound
    /\ Len(ret.ranges) >= 2
    /\ \E k \in 1..(Len(ret.ranges) - 1) :
          ret.ranges[k + 1].start_idx = ret.ranges[k].start_idx + 1
    /\ \E i \in 0..(Len(series) - min_weeks) :
          /\ i \notin QualifyingStarts
          /\ i > ret.ranges[1].start_idx
          /\ i < ret.ranges[Len(ret.ranges)].start_idx

----------------------------------------------------------------------------
(* Specification of the calls that compute without storing: analyze_phase  *)
(* and the four calculations of the RiskManager, on one position that the  *)
(* caller leaves as it is                                                  *)

\* a series too short to analyze and one that is analyzed
PureSeries == {TrendSeries(4, 5, 1, 10, 100), TrendSeries(30, 5, 1, 10, 100)}

InitPure ==
    /\ total_capital \in Capitals
    /\ position = [entry_price |-> 1000, stop_loss |-> 920]
    /\ call = NoCall
    /\ ret = NoResult
    /\ pc = "idle"
    /\ adds = <<>>
    /\ series \in PureSeries
    /\ analysis = NotAnalyzed
    /\ ma30 = None
    /\ signals = <<>>
    /\ positions \in HeldPositions

NextPure ==
    \/ AnalyzePhase
    \/ CalculateStopLoss
    \/ CalculatePositionSize
    \/ UpdateStopLoss
    \/ CalculatePyramidAddPosition

SpecPure == InitPure /\ [][NextPure]_vars

----------------------------------------------------------------------------
(* Claims about the frame of the computing calls (specification SpecPure)  *)

\* the four calculations of the RiskManager; a step that ends with one of
\* them in `call` is a call of it (analyze_phase runs before any of them)
PureCalls ==
    {"calculate_stop_loss", "calculate_position_size", "update_stop_loss",
     "calculate_pyramid_add_position"}

\* C27: analyze_phase leaves the caller's bar series unchanged and adds no
\* moving-average column to it; calculate_stop_loss, calculate_position_size,
\* update_stop_loss and calculate_pyramid_add_position leave the Position
\* (its stop_loss included), RiskManager.positions and
\* RiskManager.total_capital unchanged, and no call creates or deletes a
\* Position record.
C27_Purity ==
    [][/\ analysis'.done /\ ~analysis.done
             => series' = series /\ ma30' = ma30
       /\ call'.op \in PureCalls
             => /\ position' = position
                /\ positions' = positions
                /\ total_capital' = total_capital
       /\ DOMAIN positions' = DOMAIN positions]_vars

\* a frame without ma30 column has been analyzed as RISING, and on the
\* position with stop 9.20 update_stop_loss has returned the higher stop 9.80
C27_Witness ==
    /\ Analyzed
    /\ analysis.phase = "PHASE_2_RISING"
    /\ ma30 = None
    /\ Updated
    /\ position = [entry_price |-> 1000, stop_loss |-> 920]
    /\ ret = [kind |-> "stop", stop |-> 980]
    /\ "000001" \in DOMAIN positions

----------------------------------------------------------------------------
(* StockScanner.scan_phase2_stocks.  A listed stock is its code, whether   *)
(* its name contains "S", and the weekly frame the data collector delivers *)
(* for it (None when it delivers none); that frame has no ma30 column.     *)

\* codes that start with one of the excluded prefixes 300, 301, 688, 8, 4, 900
ExcludedCodes == {"300750"}

is_valid_stock(stock) ==
    /\ stock.code # ""
    /\ ~stock.st
    /\ stock.code \notin ExcludedCodes

\* the result of a RISING stock after generate_signals: None when it raised
\* (except Exception: return None), else the result with the first signal
first_signal_result(stock, a, generated) ==
    IF generated.kind = "raise" THEN None
    ELSE Some([code   |-> stock.code,
               phase  |-> a.phase,
               breakout_confirmed |-> a.metrics.breakout_confirmed,
               signal |-> IF generated.signals = <<>> THEN None
                          ELSE Some(generated.signals[1])])

\* the result of a stock with the frame df, that analyze_phase classified
\* as `a`: None when the phase is not RISING and when generate_signals raised
rising_stock_result(stock, df, a, generate_signal) ==
    IF a.phase # "PHASE_2_RISING" THEN None
    ELSE IF ~generate_signal
    THEN Some([code   |-> stock.code,
               phase  |-> a.phase,
               breakout_confirmed |-> a.metrics.breakout_confirmed,
               signal |-> None])
    ELSE first_signal_result(stock, a,
                             generate_signals(stock.code, df, None))

\* the result of one stock: None when there is no frame of 30 bars, when the
\* phase is not RISING, and when anything raised
analyze_single_stock(stock, generate_signal) ==
    IF stock.frame = None THEN None
    ELSE IF Len(stock.frame[1]) < 30 THEN None
    ELSE rising_stock_result(stock, stock.frame[1],
                             analyze_phase(stock.frame[1]), generate_signal)

\* the loop over the results from the k-th on: RISING results are appended
\* until max_stocks of them are there (0: no limit)
RECURSIVE collect_phase2(_, _, _, _, _)
collect_phase2(results, k, max_stocks, generate_signal, found) ==
    IF k > Len(results) THEN found
    ELSE IF max_stocks > 0 /\ Len(found.stocks) >= max_stocks THEN found
    ELSE LET result == results[k]
         IN  IF result = None \/ result[1].phase # "PHASE_2_RISING"
             THEN collect_phase2(results, k + 1, max_stocks, generate_signal,
                                 found)
             ELSE collect_phase2(results, k + 1, max_stocks, generate_signal,
                     [stocks  |-> Append(found.stocks,
                                         [code  |-> result[1].code,
                                          phase |-> result[1].phase,
                                          breakout_confirmed |->
                                              result[1].breakout_confirmed]),
                      signals |->
                          IF generate_signal /\ result[1].signal # None
                          THEN Append(found.signals, result[1].signal[1])
                          ELSE found.signals])

\* results = await asyncio.gather(*tasks), in the order of the stocks
analyze_stocks(valid_stocks, generate_signal) ==
    [k \in 1..Len(valid_stocks) |->
        analyze_single_stock(valid_stocks[k], generate_signal)]

\* (phase2_stocks, trade_signals)
scan_result(found) ==
    [kind |-> "scan", stocks |-> found.stocks, signals |-> found.signals]

scan_phase2_stocks(all_stocks, max_stocks, generate_signal) ==
    scan_result(
        collect_phase2(
            analyze_stocks(SelectSeq(all_stocks, is_valid_stock),
                           generate_signal),
            1, max_stocks, generate_signal,
            [stocks |-> <<>>, signals |-> <<>>]))

----------------------------------------------------------------------------
(* Specification of the market scan                                        *)

\* the most stocks the market lists
MaxMarket == 2

\* frames the data collector delivers: none, 4 bars, 30 rising bars, 30
\* falling bars
ScanFrames ==
    {None, Some(TrendSeries(4, 5, 1, 10, 100)),
     Some(TrendSeries(30, 5, 1, 10, 100)),
     Some(TrendSeries(30, 5, -1, 10, 100))}

Listings ==
    {[code |-> c, st |-> FALSE, frame |-> f] :
        c \in {"000001", "600519", "300750"}, f \in ScanFrames}
    \cup {[code |-> "000002", st |-> TRUE, frame |-> f] : f \in ScanFrames}

RECURSIVE Markets(_)
Markets(n) ==
    IF n = 0 THEN {<<>>}
    ELSE {<<l>> \o m : l \in Listings, m \in Markets(n - 1)}

\* one scan of the market
ScanPhase2Stocks ==
    \E m \in UNION {Markets(n) : n \in 0..MaxMarket},
       limit \in 0..1, g \in BOOLEAN :
        /\ call.op = "none"
        /\ call' = [NoCall EXCEPT !.op = "scan_phase2_stocks",
                                  !.market = m,
                                  !.max_stocks = limit,
                                  !.generate_signals = g]
        /\ ret' = scan_phase2_stocks(m, limit, g)
        /\ UNCHANGED <<total_capital, position, pc, adds>>
        /\ UNCHANGED phase_vars
        /\ UNCHANGED signal_vars

NextScan == ScanPhase2Stocks

SpecScan == Init /\ [][NextScan]_vars

----------------------------------------------------------------------------
(* Claims about scan_phase2_stocks (specification SpecScan)                *)

Scanned == call.op = "scan_phase2_stocks"

\* the listed stocks that pass the filter, have a frame of >= 30 bars and are
\* classified RISING by analyze_phase, in the order of the listing
RisingStocks ==
    SelectSeq(call.market,
              LAMBDA l : /\ is_valid_stock(l)
                         /\ l.frame # None
                         /\ Len(l.frame[1]) >= 30
                         /\ analyze_phase(l.frame[1]).phase
                               = "PHASE_2_RISING")

\* C28 as stated: with generate_signals=True the scan returns, until
\* max_stocks is reached, every filtered stock with >= 30 bars that
\* analyze_phase classifies RISING; none is dropped because signal
\* generation failed on the frame without moving-average column.
C28_ScanResultAsStated ==
    (Scanned /\ call.generate_signals) =>
        LET expected == IF call.max_stocks > 0
                            /\ Len(RisingStocks) > call.max_stocks
                        THEN SubSeq(RisingStocks, 1, call.max_stocks)
                        ELSE RisingStocks
        IN  /\ Len(ret.stocks) = Len(expected)
            /\ \A k \in 1..Len(expected) :
                  ret.stocks[k].code = expected[k].code

----------------------------------------------------------------------------
(* Claims about the phase and the MA direction (specification SpecPhase)   *)

\* C29: for a series of >= 30 bars analyze_phase returns RISING iff the MA
\* direction is up and FALLING iff it is down, whatever the price-to-MA
\* ratio; BOTTOM and TOP are returned only for a flat direction, and UNKNOWN
\* iff the series has fewer than 30 bars.
C29_DirectionDecidesTrend ==
    Analyzed =>
        /\ (analysis.phase = "UNKNOWN") <=> (Len(series) < 30)
        /\ Len(series) >= 30 =>
              /\ (analysis.phase = "PHASE_2_RISING")
                    <=> (analysis.metrics.ma30_direction = "up")
              /\ (analysis.phase = "PHASE_4_FALLING")
                    <=> (analysis.metrics.ma30_direction = "down")
              /\ analysis.phase \in {"PHASE_1_BOTTOM", "PHASE_3_TOP"}
                    => analysis.metrics.ma30_direction = "flat"

\* a series whose average points up while its latest close is under the
\* average is RISING
C29_Witness ==
    /\ Analyzed
    /\ Len(series) >= 30
    /\ analysis.metrics.ma30_direction = "up"
    /\ RatLT(analysis.metrics.price_to_ma_ratio, [num |-> 1, den |-> 1])
    /\ analysis.phase = "PHASE_2_RISING"

----------------------------------------------------------------------------
(* Claims about the reach of BUY (specification SpecPhase)                 *)

----------------------------------------------------------------------------
(* Claims about detect_breakout and detect_breakdown (specification        *)
(* SpecBreak)                                                              *)

Detected == call.op \in {"detect_breakout", "detect_breakdown"}

\* the number of bars after the range of the call
BarsAfterRange == Len(series) - 1 - call.consolidation[1].end_idx

\* the first bar after the range of the call: bar end_idx + 1 of the code
FirstBarAfterRange == series[call.consolidation[1].end_idx + 2]

\* C12 as stated: with at least 2 bars after the range, the flags are read
\* off the bar at end_idx + 1: the price flag iff its close is above
\* high * 1.03 (detect_breakout) or below low * 0.97 (detect_breakdown), the
\* volume flag iff its volume is above avg_volume * 2.0.
C12_BreakoutBarAsStated ==
    (Detected /\ BarsAfterRange >= 2) =>
        LET range == call.consolidation[1]
            bar   == FirstBarAfterRange
        IN  /\ ret.price =
                  IF call.op = "detect_breakout"
                  THEN 100 * bar.close > 103 * range.high
                  ELSE 100 * bar.close < 97 * range.low
            /\ ret.volume =
                  (bar.volume * range.avg_volume.den
                      > 2 * range.avg_volume.num)

\* C13 as stated: with fewer than 2 bars after the range both flags are
\* false.
C13_TooFewBarsAsStated ==
    (Detected /\ BarsAfterRange < 2) => (~ret.price /\ ~ret.volume)

----------------------------------------------------------------------------
(* Claims about filter_signals_by_market (specification SpecFilter)        *)

Filtered == call.op = "filter_signals_by_market"

NotBuy(signal) == signal.signal_type # "BUY"

\* the signal with the caution note at the end of its reason
Cautioned(signal) == [signal EXCEPT !.reason = @ \o <<caution_note>>]

Permuted(sigs, pi) == [i \in 1..Len(sigs) |-> sigs[pi[i]]]

\* the outputs of the one-signal lists, one after the other
RECURSIVE SignalBySignal(_, _)
SignalBySignal(sigs, index_phase) ==
    IF sigs = <<>> THEN <<>>
    ELSE filter_signals_by_market(<<Head(sigs)>>, index_phase)
             \o SignalBySignal(Tail(sigs), index_phase)

\* C14: the filter removes exactly the BUY signals when the index is
\* FALLING, keeps every BUY signal with the caution note appended when the
\* index is BOTTOM, keeps the other signals unmodified and in order for
\* every index phase, and the output of every permutation of the list is
\* the outputs of its signals taken one by one in the permuted order.
C14_MarketFilter ==
    Filtered =>
        LET input == call.signals
            out   == ret.signals
        IN  /\ call.index_phase = "PHASE_4_FALLING"
                  => out = SelectSeq(input, NotBuy)
            /\ call.index_phase = "PHASE_1_BOTTOM"
                  => /\ Len(out) = Len(input)
                     /\ \A i \in 1..Len(input) :
                           out[i] = IF NotBuy(input[i]) THEN input[i]
                                    ELSE Cautioned(input[i])
            /\ SelectSeq(out, NotBuy) = SelectSeq(input, NotBuy)
            /\ \A pi \in Permutations(1..Len(input)) :
                  filter_signals_by_market(Permuted(input, pi),
                                           call.index_phase)
                      = SignalBySignal(Permuted(input, pi), call.index_phase)

\* a BUY between two other signals is removed in a falling market
C14_Witness ==
    /\ Filtered
    /\ call.index_phase = "PHASE_4_FALLING"
    /\ Len(call.signals) = 3
    /\ call.signals[1].signal_type = "SELL"
    /\ call.signals[2].signal_type = "BUY"
    /\ call.signals[3].signal_type = "ADD_POSITION"
    /\ ret.signals = <<call.signals[1], call.signals[3]>>

----------------------------------------------------------------------------
(* Claims about the RiskManager calls on out-of-range numbers              *)
(* (specification Spec)                                                    *)

\* C15 as stated: calculate_position_size returns a value and does not
\* raise, whatever the entry and stop prices, zero and negative ones
\* included.
C15_NoRaiseAsStated ==
    (call.op = "calculate_position_size") => ret.kind # "raise"

----------------------------------------------------------------------------
(* Claims about apply_risk_management (specification SpecRisk)             *)

Applied == call.op = "apply_risk_management"

\* the fields of a signal that the call leaves alone
SameIdentity(old, new) ==
    /\ new.stock_code = old.stock_code
    /\ new.signal_type = old.signal_type
    /\ new.phase = old.phase
    /\ new.current_price = old.current_price
    /\ new.ma30_week = old.ma30_week
    /\ new.volume_ratio = old.volume_ratio

\* C16 as stated: the call changes no field of the signal other than
\* stop_loss and position_size, and nothing when the signal is neither BUY
\* nor ADD_POSITION.
C16_SignalFrameAsStated ==
    Applied =>
        LET old == call.signals[1]
            new == signals[1]
        IN  /\ SameIdentity(old, new)
            /\ new.reason = old.reason
            /\ old.signal_type \notin {"BUY", "ADD_POSITION"} => new = old

\* C16: the call changes no field of the signal other than stop_loss,
\* position_size and reason, to which it only appends; it changes nothing
\* when the signal is neither BUY nor ADD_POSITION, when an ADD_POSITION
\* signal has no held position, and when the sizing raises.
C16_SignalFrame ==
    Applied =>
        LET old == call.signals[1]
            new == signals[1]
        IN  /\ SameIdentity(old, new)
            /\ Len(new.reason) >= Len(old.reason)
            /\ SubSeq(new.reason, 1, Len(old.reason)) = old.reason
            /\ old.signal_type \notin {"BUY", "ADD_POSITION"} => new = old
            /\ (old.signal_type = "ADD_POSITION"
                   /\ old.stock_code \notin DOMAIN positions) => new = old
            /\ ret.kind = "raise" => new = old
            /\ ret.kind = "signal" => ret.signal = new

\* a BUY at 12.00 on a capital of 100000 gets stop 11.04, 1600 shares and a
\* longer reason
C16_Witness ==
    /\ Applied
    /\ total_capital = 100000
    /\ call.current_price = 1200
    /\ call.support_level = None
    /\ call.signals[1].signal_type = "BUY"
    /\ signals[1].stop_loss = Some(1104)
    /\ signals[1].position_size = Some(1600)
    /\ signals[1].reason # call.signals[1].reason

====
